---- MODULE Spec2Model ----
(***************************************************************************)
(* The entity store of professor-aid: the tables auth.users, profiles,     *)
(* turmas and atividades, their constraints, the row-level-security        *)
(* policies and the triggers of the initial migration.  Every request is   *)
(* one statement executed in one transaction on behalf of a caller whose   *)
(* identity is auth.uid().  A row carries its keys, one data column per    *)
(* table and updated_at; escola, ano_letivo, descricao, data_entrega and   *)
(* created_at take no part in a policy, a key, a cascade or a trigger and  *)
(* are left out.                                                           *)
(***************************************************************************)
EXTENDS Integers, FiniteSets, Sequences, TLC

(* ---- bounds: how many ids each table can hold ---- *)
MaxTurmas == 1
MaxAtividades == 1

(* the latest value of now(); a request can carry a timestamp up to one
   past it *)
MaxClock == 1

(* two identities, and the ids gen_random_uuid() can give their profiles *)
UserIds == {1, 2}
ProfileIds == {11, 12}
TurmaIds == 1..MaxTurmas
AtividadeIds == 1..MaxAtividades
Clock == 0..MaxClock
Stamps == 0..(MaxClock + 1)

(* ---- column domains ---- *)
NULL == "NULL"
Emails == {"ana@escola.br"}
FullNames == {"Ana"}
ProfileNomes == {"Professor", "Ana"}
TurmaNomes == {"5A"}
Periodos == {"matutino", "vespertino", "noturno"}
PeriodoInputs == {NULL, "matutino", "integral"}
Titulos == {"Prova"}
StatusValues == {"ativa", "finalizada", "cancelada"}
StatusInputs == {"ativa", "finalizada"}
Tipos == {"tarefa", "prova", "projeto", "exercicio", "trabalho"}
TipoInputs == {NULL, "quiz"}

(* SQLSTATE of a request's outcome *)
OK == "00000"
RlsViolation == "42501"
NotNullViolation == "23502"
ForeignKeyViolation == "23503"
UniqueViolation == "23505"
CheckViolation == "23514"

VARIABLES
  auth_users,   \* rows of auth.users: [id, email]
  profiles,     \* rows of public.profiles: [id, user_id, nome, email]
  turmas,       \* rows of public.turmas: [id, professor_id, nome, periodo]
  atividades,   \* rows of public.atividades: [id, turma_id, titulo, tipo, status]
  now,          \* the value of now(); every row also carries updated_at
  actor,        \* auth.uid() of the latest statement that affected a row; 0 for
                \* the identity service and before any statement
  client        \* one browser session: page, local storage, component state
                \* and the handlers awaiting a reply

vars == <<auth_users, profiles, turmas, atividades, now, actor, client>>

(* the store as one value, for the operators below *)
DB == [users |-> auth_users, profiles |-> profiles,
       turmas |-> turmas, atividades |-> atividades, now |-> now]

Reply(s, code, n) == [s |-> s, code |-> code, n |-> n]

(* ---------------------------------------------------------------------- *)
(* Row-level-security policies                                             *)
(* ---------------------------------------------------------------------- *)
(* a SELECT policy that admits every row: USING (true) *)
ProfilesSelectPolicy_Open(uid, row) == TRUE

ProfilesSelectPolicy(uid, row) == uid = row.user_id

ProfilesInsertPolicy(uid, row) == uid = row.user_id

ProfilesUpdatePolicy(uid, row) == uid = row.user_id

(* a DELETE policy like the other three: USING (auth.uid() = user_id) *)
ProfilesDeletePolicy_Own(uid, row) == uid = row.user_id

(* no policy FOR DELETE on profiles: with RLS enabled the default is deny *)
ProfilesDeletePolicy(uid, row) == FALSE

(* SELECT id FROM public.profiles WHERE user_id = auth.uid(), itself read
   through the caller's SELECT policy on profiles *)
OwnProfileIds(s, uid) ==
  {p.id : p \in {q \in s.profiles : ProfilesSelectPolicy(uid, q) /\ q.user_id = uid}}

(* a SELECT policy that admits every row: USING (true) *)
TurmasSelectPolicy_Open(s, uid, row) == TRUE

TurmasSelectPolicy(s, uid, row) == row.professor_id \in OwnProfileIds(s, uid)

(* an INSERT policy that only asks for an existing profile *)
TurmasInsertPolicy_AnyProfile(s, uid, row) ==
  row.professor_id \in {p.id : p \in s.profiles}

TurmasInsertPolicy(s, uid, row) == row.professor_id \in OwnProfileIds(s, uid)

(* an UPDATE policy that admits every row: USING (true) *)
TurmasUpdatePolicy_Open(s, uid, row) == TRUE

TurmasUpdatePolicy(s, uid, row) == row.professor_id \in OwnProfileIds(s, uid)

TurmasDeletePolicy(s, uid, row) == row.professor_id \in OwnProfileIds(s, uid)

(* SELECT t.id FROM turmas t JOIN profiles p ON t.professor_id = p.id
   WHERE p.user_id = auth.uid(), both tables read through the caller's
   SELECT policies *)
OwnTurmaIds(s, uid) ==
  {t.id : t \in {r \in s.turmas :
      /\ TurmasSelectPolicy(s, uid, r)
      /\ \E p \in s.profiles : /\ ProfilesSelectPolicy(uid, p)
                               /\ r.professor_id = p.id
                               /\ p.user_id = uid}}

(* a SELECT policy that admits every row: USING (true) *)
AtividadesSelectPolicy_Open(s, uid, row) == TRUE

AtividadesSelectPolicy(s, uid, row) == row.turma_id \in OwnTurmaIds(s, uid)

(* an INSERT policy that admits every row: WITH CHECK (true) *)
AtividadesInsertPolicy_Open(s, uid, row) == TRUE

AtividadesInsertPolicy(s, uid, row) == row.turma_id \in OwnTurmaIds(s, uid)

AtividadesUpdatePolicy(s, uid, row) == row.turma_id \in OwnTurmaIds(s, uid)

AtividadesDeletePolicy(s, uid, row) == row.turma_id \in OwnTurmaIds(s, uid)

(* ---------------------------------------------------------------------- *)
(* Table constraints: the SQLSTATE a new row version raises, OK if none.   *)
(* others is the table without the row version being replaced.             *)
(* ---------------------------------------------------------------------- *)
(* user_id without its UNIQUE constraint *)
ProfilesConstraints_NoUniqueUser(s, others, row) ==
  IF row.nome = NULL \/ row.email = NULL THEN NotNullViolation
  ELSE IF \E p \in others : p.id = row.id THEN UniqueViolation
  ELSE IF row.user_id \notin {u.id : u \in s.users} THEN ForeignKeyViolation
  ELSE OK

ProfilesConstraints(s, others, row) ==
  IF row.nome = NULL \/ row.email = NULL THEN NotNullViolation
  ELSE IF \E p \in others : p.id = row.id \/ p.user_id = row.user_id
       THEN UniqueViolation
  ELSE IF row.user_id \notin {u.id : u \in s.users} THEN ForeignKeyViolation
  ELSE OK

(* periodo without its CHECK *)
TurmasConstraints_NoPeriodoCheck(s, others, row) ==
  IF row.nome = NULL THEN NotNullViolation
  ELSE IF \E t \in others : t.id = row.id THEN UniqueViolation
  ELSE IF row.professor_id \notin {p.id : p \in s.profiles} THEN ForeignKeyViolation
  ELSE OK

TurmasConstraints(s, others, row) ==
  IF row.nome = NULL THEN NotNullViolation
  ELSE IF row.periodo # NULL /\ row.periodo \notin Periodos THEN CheckViolation
  ELSE IF \E t \in others : t.id = row.id THEN UniqueViolation
  ELSE IF row.professor_id \notin {p.id : p \in s.profiles} THEN ForeignKeyViolation
  ELSE OK

(* tipo declared NOT NULL *)
AtividadesConstraints_TipoNotNull(s, others, row) ==
  IF row.titulo = NULL \/ row.tipo = NULL THEN NotNullViolation
  ELSE IF row.tipo \notin Tipos THEN CheckViolation
  ELSE IF row.status # NULL /\ row.status \notin StatusValues THEN CheckViolation
  ELSE IF \E a \in others : a.id = row.id THEN UniqueViolation
  ELSE IF row.turma_id \notin {t.id : t \in s.turmas} THEN ForeignKeyViolation
  ELSE OK

AtividadesConstraints(s, others, row) ==
  IF row.titulo = NULL THEN NotNullViolation
  ELSE IF row.tipo # NULL /\ row.tipo \notin Tipos THEN CheckViolation
  ELSE IF row.status # NULL /\ row.status \notin StatusValues THEN CheckViolation
  ELSE IF \E a \in others : a.id = row.id THEN UniqueViolation
  ELSE IF row.turma_id \notin {t.id : t \in s.turmas} THEN ForeignKeyViolation
  ELSE OK

(* ---------------------------------------------------------------------- *)
(* ON DELETE CASCADE                                                       *)
(* ---------------------------------------------------------------------- *)
(* turmas removed without their atividades: a foreign key without
   ON DELETE CASCADE that is not enforced *)
CascadeTurmas_TurmasOnly(s, gone) == [s EXCEPT !.turmas = s.turmas \ gone]

CascadeTurmas(s, gone) ==
  [s EXCEPT !.turmas = s.turmas \ gone,
            !.atividades = {a \in s.atividades :
                               a.turma_id \notin {t.id : t \in gone}}]

(* profiles removed without their turmas *)
CascadeProfiles_ProfilesOnly(s, gone) == [s EXCEPT !.profiles = s.profiles \ gone]

CascadeProfiles(s, gone) ==
  CascadeTurmas([s EXCEPT !.profiles = s.profiles \ gone],
                {t \in s.turmas : t.professor_id \in {p.id : p \in gone}})

CascadeUsers(s, gone) ==
  CascadeProfiles([s EXCEPT !.users = s.users \ gone],
                  {p \in s.profiles : p.user_id \in {u.id : u \in gone}})

(* ---------------------------------------------------------------------- *)
(* Statements.  Each returns the store after the statement, its SQLSTATE   *)
(* and the number of rows it affected; a statement that raises leaves the  *)
(* store as it was.  An INSERT checks the policy's WITH CHECK, then the    *)
(* row constraints, then the unique indexes, then the foreign keys.  An    *)
(* UPDATE or DELETE sees only the rows its USING policy admits; an UPDATE  *)
(* applies the USING expression to the new row version as its WITH CHECK.  *)
(* ---------------------------------------------------------------------- *)
(* the value an INSERT stores in a column: the one the request carries,
   or the column's DEFAULT when the request leaves the column out *)
ColumnOr(row, col, default) == IF col \in DOMAIN row THEN row[col] ELSE default

ProfilesNewRow(s, row) ==
  [id |-> row.id, user_id |-> row.user_id, nome |-> row.nome, email |-> row.email,
   updated_at |-> ColumnOr(row, "updated_at", s.now)]

TurmasNewRow(s, row) ==
  [id |-> row.id, professor_id |-> row.professor_id, nome |-> row.nome,
   periodo |-> ColumnOr(row, "periodo", NULL),
   updated_at |-> ColumnOr(row, "updated_at", s.now)]

(* status without its DEFAULT: a column left out is stored as NULL *)
AtividadesNewRow_NoStatusDefault(s, row) ==
  [id |-> row.id, turma_id |-> row.turma_id, titulo |-> row.titulo,
   tipo |-> ColumnOr(row, "tipo", NULL),
   status |-> ColumnOr(row, "status", NULL),
   updated_at |-> ColumnOr(row, "updated_at", s.now)]

AtividadesNewRow(s, row) ==
  [id |-> row.id, turma_id |-> row.turma_id, titulo |-> row.titulo,
   tipo |-> ColumnOr(row, "tipo", NULL),
   status |-> ColumnOr(row, "status", "ativa"),
   updated_at |-> ColumnOr(row, "updated_at", s.now)]

(* the SET clause of an UPDATE: one column, and updated_at when the
   request carries it too *)
SetClause(old, patch) ==
  LET a == [old EXCEPT ![patch.col] = patch.val] IN
  IF "updated_at" \in DOMAIN patch THEN [a EXCEPT !.updated_at = patch.updated_at]
  ELSE a

(* a trigger function that returns NEW as the request built it *)
update_updated_at_column_KeepSupplied(new_row, t) == new_row

(* BEFORE UPDATE ... FOR EACH ROW on the three tables: NEW.updated_at = now() *)
update_updated_at_column(new_row, t) == [new_row EXCEPT !.updated_at = t]

SelectProfiles(s, uid) == {p \in s.profiles : ProfilesSelectPolicy(uid, p)}

SelectTurmas(s, uid) == {t \in s.turmas : TurmasSelectPolicy(s, uid, t)}

SelectAtividades(s, uid) == {a \in s.atividades : AtividadesSelectPolicy(s, uid, a)}

InsertProfile(s, uid, row) ==
  LET new == ProfilesNewRow(s, row) IN
  IF ~ProfilesInsertPolicy(uid, new) THEN Reply(s, RlsViolation, 0)
  ELSE LET c == ProfilesConstraints(s, s.profiles, new) IN
       IF c # OK THEN Reply(s, c, 0)
       ELSE Reply([s EXCEPT !.profiles = s.profiles \cup {new}], OK, 1)

(* an UPDATE of profiles that lets a referenced id change *)
UpdateProfile_NoReferenceCheck(s, uid, id, patch) ==
  LET hit == {p \in s.profiles : /\ p.id = id
                                 /\ ProfilesSelectPolicy(uid, p)
                                 /\ ProfilesUpdatePolicy(uid, p)} IN
  IF hit = {} THEN Reply(s, OK, 0)
  ELSE LET old == CHOOSE p \in hit : TRUE
           new == update_updated_at_column(SetClause(old, patch), s.now)
           c == ProfilesConstraints(s, s.profiles \ {old}, new)
       IN IF ~ProfilesUpdatePolicy(uid, new) THEN Reply(s, RlsViolation, 0)
          ELSE IF c # OK THEN Reply(s, c, 0)
          ELSE Reply([s EXCEPT !.profiles = (s.profiles \ {old}) \cup {new}], OK, 1)

UpdateProfile(s, uid, id, patch) ==
  LET hit == {p \in s.profiles : /\ p.id = id
                                 /\ ProfilesSelectPolicy(uid, p)
                                 /\ ProfilesUpdatePolicy(uid, p)} IN
  IF hit = {} THEN Reply(s, OK, 0)
  ELSE LET old == CHOOSE p \in hit : TRUE
           new == update_updated_at_column(SetClause(old, patch), s.now)
           c == ProfilesConstraints(s, s.profiles \ {old}, new)
       IN IF ~ProfilesUpdatePolicy(uid, new) THEN Reply(s, RlsViolation, 0)
          ELSE IF c # OK THEN Reply(s, c, 0)
          ELSE IF new.id # old.id /\ \E t \in s.turmas : t.professor_id = old.id
               THEN Reply(s, ForeignKeyViolation, 0)
          ELSE Reply([s EXCEPT !.profiles = (s.profiles \ {old}) \cup {new}], OK, 1)

DeleteProfile(s, uid, id) ==
  LET hit == {p \in s.profiles : /\ p.id = id
                                 /\ ProfilesSelectPolicy(uid, p)
                                 /\ ProfilesDeletePolicy(uid, p)} IN
  Reply(CascadeProfiles(s, hit), OK, Cardinality(hit))

InsertTurma(s, uid, row) ==
  LET new == TurmasNewRow(s, row) IN
  IF ~TurmasInsertPolicy(s, uid, new) THEN Reply(s, RlsViolation, 0)
  ELSE LET c == TurmasConstraints(s, s.turmas, new) IN
       IF c # OK THEN Reply(s, c, 0)
       ELSE Reply([s EXCEPT !.turmas = s.turmas \cup {new}], OK, 1)

UpdateTurma(s, uid, id, patch) ==
  LET hit == {t \in s.turmas : /\ t.id = id
                               /\ TurmasSelectPolicy(s, uid, t)
                               /\ TurmasUpdatePolicy(s, uid, t)} IN
  IF hit = {} THEN Reply(s, OK, 0)
  ELSE LET old == CHOOSE t \in hit : TRUE
           new == update_updated_at_column(SetClause(old, patch), s.now)
           c == TurmasConstraints(s, s.turmas \ {old}, new)
       IN IF ~TurmasUpdatePolicy(s, uid, new) THEN Reply(s, RlsViolation, 0)
          ELSE IF c # OK THEN Reply(s, c, 0)
          ELSE IF new.id # old.id /\ \E a \in s.atividades : a.turma_id = old.id
               THEN Reply(s, ForeignKeyViolation, 0)
          ELSE Reply([s EXCEPT !.turmas = (s.turmas \ {old}) \cup {new}], OK, 1)

DeleteTurma(s, uid, id) ==
  LET hit == {t \in s.turmas : /\ t.id = id
                               /\ TurmasSelectPolicy(s, uid, t)
                               /\ TurmasDeletePolicy(s, uid, t)} IN
  Reply(CascadeTurmas(s, hit), OK, Cardinality(hit))

InsertAtividade(s, uid, row) ==
  LET new == AtividadesNewRow(s, row) IN
  IF ~AtividadesInsertPolicy(s, uid, new) THEN Reply(s, RlsViolation, 0)
  ELSE LET c == AtividadesConstraints(s, s.atividades, new) IN
       IF c # OK THEN Reply(s, c, 0)
       ELSE Reply([s EXCEPT !.atividades = s.atividades \cup {new}], OK, 1)

UpdateAtividade(s, uid, id, patch) ==
  LET hit == {a \in s.atividades : /\ a.id = id
                                   /\ AtividadesSelectPolicy(s, uid, a)
                                   /\ AtividadesUpdatePolicy(s, uid, a)} IN
  IF hit = {} THEN Reply(s, OK, 0)
  ELSE LET old == CHOOSE a \in hit : TRUE
           new == update_updated_at_column(SetClause(old, patch), s.now)
           c == AtividadesConstraints(s, s.atividades \ {old}, new)
       IN IF ~AtividadesUpdatePolicy(s, uid, new) THEN Reply(s, RlsViolation, 0)
          ELSE IF c # OK THEN Reply(s, c, 0)
          ELSE Reply([s EXCEPT !.atividades = (s.atividades \ {old}) \cup {new}], OK, 1)

DeleteAtividade(s, uid, id) ==
  LET hit == {a \in s.atividades : /\ a.id = id
                                   /\ AtividadesSelectPolicy(s, uid, a)
                                   /\ AtividadesDeletePolicy(s, uid, a)} IN
  Reply([s EXCEPT !.atividades = s.atividades \ hit], OK, Cardinality(hit))

(* ---------------------------------------------------------------------- *)
(* Identity lifecycle                                                      *)
(* ---------------------------------------------------------------------- *)
(* a trigger that inserts nothing *)
handle_new_user_NoInsert(s, new_user, pid) == Reply(s, OK, 0)

(* a trigger that ignores raw_user_meta_data: nome is always 'Professor' *)
handle_new_user_FixedName(s, new_user, pid) ==
  LET row == [id |-> pid, user_id |-> new_user.id, nome |-> "Professor",
              email |-> new_user.email, updated_at |-> s.now]
      c == ProfilesConstraints(s, s.profiles, row)
  IN IF c # OK THEN Reply(s, c, 0)
     ELSE Reply([s EXCEPT !.profiles = s.profiles \cup {row}], OK, 1)

(* handle_new_user: SECURITY DEFINER, so the insert is not subject to the
   policies; pid is the value gen_random_uuid() gives the new row *)
handle_new_user(s, new_user, pid) ==
  LET row == [id |-> pid, user_id |-> new_user.id,
              nome |-> IF new_user.full_name # NULL THEN new_user.full_name ELSE "Professor",
              email |-> new_user.email, updated_at |-> s.now]
      c == ProfilesConstraints(s, s.profiles, row)
  IN IF c # OK THEN Reply(s, c, 0)
     ELSE Reply([s EXCEPT !.profiles = s.profiles \cup {row}], OK, 1)

(* a trigger whose failure is swallowed: the identity stays *)
on_auth_user_created_Swallow(s, new_user, pid) ==
  IF \E u \in s.users : u.id = new_user.id THEN Reply(s, UniqueViolation, 0)
  ELSE LET row == [id |-> new_user.id, email |-> new_user.email]
           t == handle_new_user([s EXCEPT !.users = s.users \cup {row}], new_user, pid) IN
       IF t.code # OK THEN Reply([s EXCEPT !.users = s.users \cup {row}], OK, 1)
       ELSE Reply(t.s, OK, 1)

(* INSERT INTO auth.users with its AFTER INSERT trigger, one transaction:
   when the trigger raises, the insert of the identity is rolled back *)
on_auth_user_created(s, new_user, pid) ==
  IF \E u \in s.users : u.id = new_user.id THEN Reply(s, UniqueViolation, 0)
  ELSE LET row == [id |-> new_user.id, email |-> new_user.email]
           t == handle_new_user([s EXCEPT !.users = s.users \cup {row}], new_user, pid) IN
       IF t.code # OK THEN Reply(s, t.code, 0) ELSE Reply(t.s, OK, 1)

DeleteUser(s, id) ==
  LET hit == {u \in s.users : u.id = id} IN
  Reply(CascadeUsers(s, hit), OK, Cardinality(hit))

(* ---------------------------------------------------------------------- *)
(* The browser client: its state                                           *)
(* ---------------------------------------------------------------------- *)
(* a nullable value of the client: <<>> is null, <<v>> holds v *)
Null == <<>>
Some(v) == <<v>>

(* what one browser session works with *)
ClientUserIds == {1}
ClientProfileIds == {11}
ClientTurmaIds == {1, 2}
ClientAtividadeIds == {1}

(* a local-storage key, as the pieces it is written from *)
SessionKey == <<"sb-", "ref", "-auth-token">>
LegacyKey == <<"supabase.auth.", "token">>
EmbeddedKey == <<"app.", "sb-", "cache">>
OtherKey == <<"theme">>

startsWith(key, prefix) == Len(key) > 0 /\ key[1] = prefix
includes(key, part) == \E i \in 1..Len(key) : key[i] = part
IsAuthKey(key) == startsWith(key, "supabase.auth.") \/ includes(key, "sb-")

(* storage after the removal loop; the session kept under SessionKey goes
   with its key *)
RemoveAuthKeys(c) ==
  [c EXCEPT !.localStorage = {k \in c.localStorage : ~IsAuthKey(k)},
            !.session = IF IsAuthKey(SessionKey) THEN Null ELSE c.session]

(* a cleanup that removes nothing *)
cleanupAuthState_Keep(c) == c

cleanupAuthState(c) == RemoveAuthKeys(c)

(* supabase-js persisting a session, and dropping it *)
SaveSession(c, uid) ==
  [c EXCEPT !.localStorage = c.localStorage \cup {SessionKey}, !.session = Some(uid)]

RemoveSession(c) ==
  [c EXCEPT !.localStorage = c.localStorage \ {SessionKey}, !.session = Null]

(* auth.uid() of a request sent now: the stored session's user, 0 for anon *)
RequestUid(c) == IF c.session = Null THEN 0 ELSE c.session[1]

(* the handlers that can be awaiting a reply, one at a time each *)
Slots == {"AuthPage", "handleSignOut", "loadUserData", "TurmasManager", "AtividadesManager"}
(* a slot with no request on its way: free, or running an effect *)
Pending(h) == [h |-> h, at |-> "", state |-> ""]
Idle == Pending("idle")
NoCalls == [slot \in Slots |-> Idle]

AuthPageInit == [email |-> "", password |-> "", fullName |-> "", isLoading |-> FALSE]

DashboardInit ==
  [user |-> Null, profile |-> Null, turmas |-> <<>>, atividades |-> <<>>,
   isLoading |-> TRUE]

TurmasFormInit == [nome |-> "", periodo |-> ""]
TurmasManagerInit == [isDialogOpen |-> FALSE, isLoading |-> FALSE, formData |-> TurmasFormInit]

AtividadesFormInit == [titulo |-> "", tipo |-> "", turma_id |-> Null, status |-> "ativa"]
AtividadesManagerInit ==
  [isDialogOpen |-> FALSE, isLoading |-> FALSE, formData |-> AtividadesFormInit]

(* a page load: every component starts from its initial state and whatever
   the page left awaiting is dropped; local storage stays *)
OpenAuthPage(c) ==
  [c EXCEPT !.page = "auth", !.auth = AuthPageInit, !.dashboard = DashboardInit,
            !.turmasManager = TurmasManagerInit,
            !.atividadesManager = AtividadesManagerInit,
            !.calls = [NoCalls EXCEPT !["AuthPage"] = Pending("checkUser")]]

OpenDashboard(c) ==
  [c EXCEPT !.page = "dashboard", !.auth = AuthPageInit, !.dashboard = DashboardInit,
            !.turmasManager = TurmasManagerInit,
            !.atividadesManager = AtividadesManagerInit,
            !.calls = [NoCalls EXCEPT !["loadUserData"] = Pending("getSession")]]

ClientInit ==
  OpenDashboard([page |-> "dashboard",
                 localStorage |-> {LegacyKey, EmbeddedKey, OtherKey},
                 session |-> Null,
                 auth |-> AuthPageInit, dashboard |-> DashboardInit,
                 turmasManager |-> TurmasManagerInit,
                 atividadesManager |-> AtividadesManagerInit,
                 calls |-> NoCalls])

(* ---------------------------------------------------------------------- *)
(* The state machine                                                       *)
(* ---------------------------------------------------------------------- *)
Init ==
  /\ auth_users = {}
  /\ profiles = {}
  /\ turmas = {}
  /\ atividades = {}
  /\ now = 0
  /\ actor = 0
  /\ client = ClientInit

(* One writing request or identity-service call is one transaction: the
   store becomes the reply's store (a statement that raises, or that no row
   passes the policy of, leaves it as it was), and actor becomes the caller
   when the statement affected a row.  A SELECT returns the rows its policy
   admits and changes nothing. *)
Actor(r, caller) == IF r.code = OK /\ r.n > 0 THEN caller ELSE actor

FreeProfileIds == ProfileIds \ {p.id : p \in profiles}

ProfilePatches ==
  [col : {"id"}, val : ProfileIds] \cup [col : {"user_id"}, val : UserIds]
    \cup [col : {"nome"}, val : ProfileNomes]

TurmaPatches ==
  [col : {"id"}, val : TurmaIds] \cup [col : {"professor_id"}, val : ProfileIds]
    \cup [col : {"periodo"}, val : PeriodoInputs]

AtividadePatches ==
  [col : {"id"}, val : AtividadeIds] \cup [col : {"turma_id"}, val : TurmaIds]
    \cup [col : {"tipo"}, val : TipoInputs] \cup [col : {"status"}, val : StatusInputs]

(* the rows a request can carry, and the rows the identity service can add
   to auth.users: email and the full_name of raw_user_meta_data may be absent *)
ProfileRows == [id : ProfileIds, user_id : UserIds, nome : ProfileNomes, email : Emails]

TurmaRows == [id : TurmaIds, professor_id : ProfileIds, nome : TurmaNomes,
              periodo : PeriodoInputs]

AtividadeRows == [id : AtividadeIds, turma_id : TurmaIds, titulo : Titulos,
                  tipo : TipoInputs, status : StatusInputs]

NewUsers == [id : UserIds, email : Emails \cup {NULL}, full_name : FullNames \cup {NULL}]

CreateIdentity ==
  \E new_user \in NewUsers, pid \in FreeProfileIds :
    LET r == on_auth_user_created(DB, new_user, pid) IN
    /\ auth_users' = r.s.users /\ profiles' = r.s.profiles
    /\ turmas' = r.s.turmas /\ atividades' = r.s.atividades
    /\ actor' = Actor(r, 0)
    /\ now' = now
    /\ client' = client

DeleteIdentity ==
  \E id \in UserIds :
    LET r == DeleteUser(DB, id) IN
    /\ auth_users' = r.s.users /\ profiles' = r.s.profiles
    /\ turmas' = r.s.turmas /\ atividades' = r.s.atividades
    /\ actor' = Actor(r, 0)
    /\ now' = now
    /\ client' = client

ReqSelectProfiles ==
  \E uid \in UserIds :
    /\ SelectProfiles(DB, uid) \subseteq profiles
    /\ UNCHANGED vars

ReqInsertProfile ==
  \E uid \in UserIds, row \in ProfileRows :
    LET r == InsertProfile(DB, uid, row) IN
    /\ auth_users' = r.s.users /\ profiles' = r.s.profiles
    /\ turmas' = r.s.turmas /\ atividades' = r.s.atividades
    /\ actor' = Actor(r, uid)
    /\ now' = now
    /\ client' = client

ReqUpdateProfile ==
  \E uid \in UserIds, id \in ProfileIds, patch \in ProfilePatches :
    LET r == UpdateProfile(DB, uid, id, patch) IN
    /\ auth_users' = r.s.users /\ profiles' = r.s.profiles
    /\ turmas' = r.s.turmas /\ atividades' = r.s.atividades
    /\ actor' = Actor(r, uid)
    /\ now' = now
    /\ client' = client

ReqDeleteProfile ==
  \E uid \in UserIds, id \in ProfileIds :
    LET r == DeleteProfile(DB, uid, id) IN
    /\ auth_users' = r.s.users /\ profiles' = r.s.profiles
    /\ turmas' = r.s.turmas /\ atividades' = r.s.atividades
    /\ actor' = Actor(r, uid)
    /\ now' = now
    /\ client' = client

ReqSelectTurmas ==
  \E uid \in UserIds :
    /\ SelectTurmas(DB, uid) \subseteq turmas
    /\ UNCHANGED vars

ReqInsertTurma ==
  \E uid \in UserIds, row \in TurmaRows :
    LET r == InsertTurma(DB, uid, row) IN
    /\ auth_users' = r.s.users /\ profiles' = r.s.profiles
    /\ turmas' = r.s.turmas /\ atividades' = r.s.atividades
    /\ actor' = Actor(r, uid)
    /\ now' = now
    /\ client' = client

ReqUpdateTurma ==
  \E uid \in UserIds, id \in TurmaIds, patch \in TurmaPatches :
    LET r == UpdateTurma(DB, uid, id, patch) IN
    /\ auth_users' = r.s.users /\ profiles' = r.s.profiles
    /\ turmas' = r.s.turmas /\ atividades' = r.s.atividades
    /\ actor' = Actor(r, uid)
    /\ now' = now
    /\ client' = client

ReqDeleteTurma ==
  \E uid \in UserIds, id \in TurmaIds :
    LET r == DeleteTurma(DB, uid, id) IN
    /\ auth_users' = r.s.users /\ profiles' = r.s.profiles
    /\ turmas' = r.s.turmas /\ atividades' = r.s.atividades
    /\ actor' = Actor(r, uid)
    /\ now' = now
    /\ client' = client

ReqSelectAtividades ==
  \E uid \in UserIds :
    /\ SelectAtividades(DB, uid) \subseteq atividades
    /\ UNCHANGED vars

ReqInsertAtividade ==
  \E uid \in UserIds, row \in AtividadeRows :
    LET r == InsertAtividade(DB, uid, row) IN
    /\ auth_users' = r.s.users /\ profiles' = r.s.profiles
    /\ turmas' = r.s.turmas /\ atividades' = r.s.atividades
    /\ actor' = Actor(r, uid)
    /\ now' = now
    /\ client' = client

ReqUpdateAtividade ==
  \E uid \in UserIds, id \in AtividadeIds, patch \in AtividadePatches :
    LET r == UpdateAtividade(DB, uid, id, patch) IN
    /\ auth_users' = r.s.users /\ profiles' = r.s.profiles
    /\ turmas' = r.s.turmas /\ atividades' = r.s.atividades
    /\ actor' = Actor(r, uid)
    /\ now' = now
    /\ client' = client

ReqDeleteAtividade ==
  \E uid \in UserIds, id \in AtividadeIds :
    LET r == DeleteAtividade(DB, uid, id) IN
    /\ auth_users' = r.s.users /\ profiles' = r.s.profiles
    /\ turmas' = r.s.turmas /\ atividades' = r.s.atividades
    /\ actor' = Actor(r, uid)
    /\ now' = now
    /\ client' = client

Next ==
  \/ CreateIdentity
  \/ DeleteIdentity
  \/ ReqSelectProfiles
  \/ ReqInsertProfile
  \/ ReqUpdateProfile
  \/ ReqDeleteProfile
  \/ ReqSelectTurmas
  \/ ReqInsertTurma
  \/ ReqUpdateTurma
  \/ ReqDeleteTurma
  \/ ReqSelectAtividades
  \/ ReqInsertAtividade
  \/ ReqUpdateAtividade
  \/ ReqDeleteAtividade

Spec == Init /\ [][Next]_vars

(* ---------------------------------------------------------------------- *)
(* The store under a running clock.  One identity sends requests that may  *)
(* carry updated_at, at insert and in the SET clause of an update, while   *)
(* now() advances between transactions.                                    *)
(* ---------------------------------------------------------------------- *)
TimedUserIds == {1}

TimedProfilePatches ==
  [col : {"nome"}, val : ProfileNomes]
    \cup [col : {"nome"}, val : ProfileNomes, updated_at : Stamps]

TimedTurmaRows ==
  [id : {1}, professor_id : ProfileIds, nome : TurmaNomes, periodo : {"matutino"}]
    \cup [id : {1}, professor_id : ProfileIds, nome : TurmaNomes,
          periodo : {"matutino"}, updated_at : Stamps]

TimedTurmaPatches ==
  [col : {"periodo"}, val : {"vespertino"}]
    \cup [col : {"periodo"}, val : {"vespertino"}, updated_at : Stamps]

TimedAtividadeRows ==
  [id : {1}, turma_id : {1}, titulo : Titulos]
    \cup [id : {1}, turma_id : {1}, titulo : Titulos, updated_at : Stamps]

TimedAtividadePatches ==
  [col : {"status"}, val : {"finalizada"}]
    \cup [col : {"status"}, val : {"finalizada"}, updated_at : Stamps]

Tick ==
  /\ now < MaxClock
  /\ now' = now + 1
  /\ UNCHANGED <<auth_users, profiles, turmas, atividades, actor, client>>

TimedUpdateProfile ==
  \E uid \in TimedUserIds, id \in ProfileIds, patch \in TimedProfilePatches :
    LET r == UpdateProfile(DB, uid, id, patch) IN
    /\ auth_users' = r.s.users /\ profiles' = r.s.profiles
    /\ turmas' = r.s.turmas /\ atividades' = r.s.atividades
    /\ actor' = Actor(r, uid)
    /\ now' = now
    /\ client' = client

TimedInsertTurma ==
  \E uid \in TimedUserIds, row \in TimedTurmaRows :
    LET r == InsertTurma(DB, uid, row) IN
    /\ auth_users' = r.s.users /\ profiles' = r.s.profiles
    /\ turmas' = r.s.turmas /\ atividades' = r.s.atividades
    /\ actor' = Actor(r, uid)
    /\ now' = now
    /\ client' = client

TimedUpdateTurma ==
  \E uid \in TimedUserIds, id \in TurmaIds, patch \in TimedTurmaPatches :
    LET r == UpdateTurma(DB, uid, id, patch) IN
    /\ auth_users' = r.s.users /\ profiles' = r.s.profiles
    /\ turmas' = r.s.turmas /\ atividades' = r.s.atividades
    /\ actor' = Actor(r, uid)
    /\ now' = now
    /\ client' = client

TimedInsertAtividade ==
  \E uid \in TimedUserIds, row \in TimedAtividadeRows :
    LET r == InsertAtividade(DB, uid, row) IN
    /\ auth_users' = r.s.users /\ profiles' = r.s.profiles
    /\ turmas' = r.s.turmas /\ atividades' = r.s.atividades
    /\ actor' = Actor(r, uid)
    /\ now' = now
    /\ client' = client

TimedUpdateAtividade ==
  \E uid \in TimedUserIds, id \in AtividadeIds, patch \in TimedAtividadePatches :
    LET r == UpdateAtividade(DB, uid, id, patch) IN
    /\ auth_users' = r.s.users /\ profiles' = r.s.profiles
    /\ turmas' = r.s.turmas /\ atividades' = r.s.atividades
    /\ actor' = Actor(r, uid)
    /\ now' = now
    /\ client' = client

TimeNext ==
  \/ Tick
  \/ CreateIdentity
  \/ TimedUpdateProfile
  \/ TimedInsertTurma
  \/ TimedUpdateTurma
  \/ TimedInsertAtividade
  \/ TimedUpdateAtividade

TimeSpec == Init /\ [][TimeNext]_vars

(* ---------------------------------------------------------------------- *)
(* The store under requests that range over the enumerated columns: any    *)
(* value of the set, NULL, a value outside the set, or the column left out *)
(* of the INSERT.                                                          *)
(* ---------------------------------------------------------------------- *)
EnumPeriodoInputs == Periodos \cup {NULL, "integral"}

EnumTipoInputs == {NULL, "prova", "quiz"}

EnumStatusInputs == StatusValues \cup {NULL, "pendente"}

EnumTurmaRows ==
  [id : {1}, professor_id : ProfileIds, nome : TurmaNomes, periodo : EnumPeriodoInputs]
    \cup [id : {1}, professor_id : ProfileIds, nome : TurmaNomes]

EnumTurmaPatches == [col : {"periodo"}, val : EnumPeriodoInputs]

EnumAtividadeRows ==
  [id : {1}, turma_id : {1}, titulo : Titulos,
   tipo : EnumTipoInputs, status : EnumStatusInputs]
    \cup [id : {1}, turma_id : {1}, titulo : Titulos, status : EnumStatusInputs]
    \cup [id : {1}, turma_id : {1}, titulo : Titulos, tipo : EnumTipoInputs]
    \cup [id : {1}, turma_id : {1}, titulo : Titulos]

EnumAtividadePatches ==
  [col : {"tipo"}, val : EnumTipoInputs] \cup [col : {"status"}, val : EnumStatusInputs]

EnumInsertTurma ==
  \E uid \in UserIds, row \in EnumTurmaRows :
    LET r == InsertTurma(DB, uid, row) IN
    /\ auth_users' = r.s.users /\ profiles' = r.s.profiles
    /\ turmas' = r.s.turmas /\ atividades' = r.s.atividades
    /\ actor' = Actor(r, uid)
    /\ now' = now
    /\ client' = client

EnumUpdateTurma ==
  \E uid \in UserIds, id \in TurmaIds, patch \in EnumTurmaPatches :
    LET r == UpdateTurma(DB, uid, id, patch) IN
    /\ auth_users' = r.s.users /\ profiles' = r.s.profiles
    /\ turmas' = r.s.turmas /\ atividades' = r.s.atividades
    /\ actor' = Actor(r, uid)
    /\ now' = now
    /\ client' = client

EnumInsertAtividade ==
  \E uid \in UserIds, row \in EnumAtividadeRows :
    LET r == InsertAtividade(DB, uid, row) IN
    /\ auth_users' = r.s.users /\ profiles' = r.s.profiles
    /\ turmas' = r.s.turmas /\ atividades' = r.s.atividades
    /\ actor' = Actor(r, uid)
    /\ now' = now
    /\ client' = client

EnumUpdateAtividade ==
  \E uid \in UserIds, id \in AtividadeIds, patch \in EnumAtividadePatches :
    LET r == UpdateAtividade(DB, uid, id, patch) IN
    /\ auth_users' = r.s.users /\ profiles' = r.s.profiles
    /\ turmas' = r.s.turmas /\ atividades' = r.s.atividades
    /\ actor' = Actor(r, uid)
    /\ now' = now
    /\ client' = client

EnumNext ==
  \/ CreateIdentity
  \/ EnumInsertTurma
  \/ EnumUpdateTurma
  \/ ReqDeleteTurma
  \/ EnumInsertAtividade
  \/ EnumUpdateAtividade
  \/ ReqDeleteAtividade

EnumSpec == Init /\ [][EnumNext]_vars

(* ---------------------------------------------------------------------- *)
(* The browser client: its handlers.  A handler runs to its first await in *)
(* one step; the awaited request is served by the backend in a step of its *)
(* own, and the handler resumes with the reply in a later step.            *)
(* ---------------------------------------------------------------------- *)
storeVars == <<auth_users, profiles, turmas, atividades, now, actor>>

Call(slot) == client.calls[slot]

(* what a request can come back with besides the backend's answer: an error
   object without the backend having run it, or a rejected promise *)
Failures == {"error", "throw"}

(* ---- AuthPage ---- *)
AuthEmails == {"", "ana@escola.br"}
AuthPasswords == {"", "12345", "123456"}
AuthFullNames == {"", "Ana"}

(* the effect run at page load: a stored session sends the visitor on *)
checkUser ==
  /\ client.page = "auth"
  /\ Call("AuthPage").h = "checkUser"
  /\ client' = IF client.session # Null THEN OpenDashboard(client)
               ELSE [client EXCEPT !.calls["AuthPage"] = Idle]
  /\ UNCHANGED storeVars

SignInValid(f) == ~(f.email = "" \/ f.password = "")

SignUpValid(f) ==
  /\ ~(f.email = "" \/ f.password = "" \/ f.fullName = "")
  /\ ~(Len(f.password) < 6)

(* the reply to a credential request *)
Credentials(user, error, thrown) == [user |-> user, error |-> error, thrown |-> thrown]

(* setIsLoading(true); cleanupAuthState(); the global sign-out is awaited *)
StartCredentials(c, h) ==
  [cleanupAuthState([c EXCEPT !.auth.isLoading = TRUE]) EXCEPT
     !.calls["AuthPage"] = [h |-> h, at |-> "signOut", state |-> "sent",
                            events |-> <<"cleanupAuthState", "signOut">>,
                            reply |-> Credentials(Null, FALSE, FALSE)]]

handleSignIn ==
  \E email \in AuthEmails, password \in AuthPasswords :
    /\ client.page = "auth"
    /\ Call("AuthPage").h = "idle"
    /\ ~client.auth.isLoading
    /\ LET typed == [client EXCEPT !.auth.email = email, !.auth.password = password] IN
       client' = IF ~SignInValid(typed.auth) THEN typed
                 ELSE StartCredentials(typed, "handleSignIn")
    /\ UNCHANGED storeVars

handleSignUp ==
  \E email \in AuthEmails, password \in AuthPasswords, fullName \in AuthFullNames :
    /\ client.page = "auth"
    /\ Call("AuthPage").h = "idle"
    /\ ~client.auth.isLoading
    /\ LET typed == [client EXCEPT !.auth.email = email, !.auth.password = password,
                                   !.auth.fullName = fullName] IN
       client' = IF ~SignUpValid(typed.auth) THEN typed
                 ELSE StartCredentials(typed, "handleSignUp")
    /\ UNCHANGED storeVars

(* the awaited sign-out settles, whatever way; the credential request goes out *)
AuthPageSignOutSettles ==
  \E outcome \in {"ok"} \cup Failures :
    /\ client.page = "auth"
    /\ Call("AuthPage").h \in {"handleSignIn", "handleSignUp"}
    /\ Call("AuthPage").at = "signOut"
    /\ LET c == IF outcome = "ok" THEN RemoveSession(client) ELSE client IN
       client' = [c EXCEPT !.calls["AuthPage"].at = "credentials",
                           !.calls["AuthPage"].events =
                              @ \o <<outcome, "credentials">>]
    /\ UNCHANGED storeVars

(* signInWithPassword at the identity service: an identity with that email
   signs in, and supabase-js keeps its session *)
ServeSignIn ==
  /\ client.page = "auth"
  /\ Call("AuthPage").h = "handleSignIn"
  /\ Call("AuthPage").at = "credentials" /\ Call("AuthPage").state = "sent"
  /\ \E u \in auth_users :
       /\ u.email = client.auth.email
       /\ client' = [SaveSession(client, u.id) EXCEPT
                       !.calls["AuthPage"].state = "replied",
                       !.calls["AuthPage"].reply = Credentials(Some(u.id), FALSE, FALSE)]
  /\ UNCHANGED storeVars

(* signUp at the identity service: the identity is inserted with its
   full_name, the provisioning trigger runs, and the session is kept unless
   the address has to be confirmed first *)
ServeSignUp ==
  /\ client.page = "auth"
  /\ Call("AuthPage").h = "handleSignUp"
  /\ Call("AuthPage").at = "credentials" /\ Call("AuthPage").state = "sent"
  /\ \E id \in ClientUserIds, pid \in ClientProfileIds, confirmed \in BOOLEAN :
       LET new_user == [id |-> id, email |-> client.auth.email,
                        full_name |-> client.auth.fullName]
           r == on_auth_user_created(DB, new_user, pid)
           c == IF r.code = OK /\ confirmed THEN SaveSession(client, id) ELSE client
       IN
       /\ auth_users' = r.s.users /\ profiles' = r.s.profiles
       /\ turmas' = r.s.turmas /\ atividades' = r.s.atividades
       /\ actor' = Actor(r, 0)
       /\ now' = now
       /\ client' = [c EXCEPT
            !.calls["AuthPage"].state = "replied",
            !.calls["AuthPage"].reply =
               IF r.code = OK THEN Credentials(Some(id), FALSE, FALSE)
               ELSE Credentials(Null, TRUE, FALSE)]

(* a credential request that is refused, fails on the way or throws; the
   reply type also allows neither a user nor an error *)
CredentialsFail ==
  \E reply \in {Credentials(Null, TRUE, FALSE), Credentials(Null, FALSE, TRUE),
                Credentials(Null, FALSE, FALSE)} :
    /\ client.page = "auth"
    /\ Call("AuthPage").h \in {"handleSignIn", "handleSignUp"}
    /\ Call("AuthPage").at = "credentials" /\ Call("AuthPage").state = "sent"
    /\ client' = [client EXCEPT !.calls["AuthPage"].state = "replied",
                                !.calls["AuthPage"].reply = reply]
    /\ UNCHANGED storeVars

(* the rest of handleSignIn / handleSignUp once the credential request has
   settled: the finally block runs on every path, also after the redirect *)
AuthPageFinally(c) ==
  [c EXCEPT !.auth.isLoading = FALSE, !.calls["AuthPage"] = Idle]

AfterCredentials(c, reply, welcome, refused) ==
  IF reply.thrown THEN AuthPageFinally(c)
  ELSE IF reply.error THEN AuthPageFinally(c)
  ELSE IF reply.user # Null THEN OpenDashboard(AuthPageFinally(c))
  ELSE AuthPageFinally(c)

handleSignInResumes ==
  /\ client.page = "auth"
  /\ Call("AuthPage").h = "handleSignIn"
  /\ Call("AuthPage").at = "credentials" /\ Call("AuthPage").state = "replied"
  /\ client' = AfterCredentials(client, Call("AuthPage").reply,
                                "Login realizado com sucesso!", "Erro no login")
  /\ UNCHANGED storeVars

handleSignUpResumes ==
  /\ client.page = "auth"
  /\ Call("AuthPage").h = "handleSignUp"
  /\ Call("AuthPage").at = "credentials" /\ Call("AuthPage").state = "replied"
  /\ client' = AfterCredentials(client, Call("AuthPage").reply,
                                "Cadastro realizado!", "Erro no cadastro")
  /\ UNCHANGED storeVars

(* ---- Dashboard: sign-out ---- *)
(* the managers and the sign-out button are on screen *)
Rendered(c) ==
  /\ c.page = "dashboard"
  /\ ~c.dashboard.isLoading
  /\ ~(c.dashboard.user = Null \/ c.dashboard.profile = Null)

handleSignOut ==
  /\ Rendered(client)
  /\ Call("handleSignOut").h = "idle"
  /\ client' = [client EXCEPT !.calls["handleSignOut"] =
                   [h |-> "handleSignOut", at |-> "signOut", state |-> "sent"]]
  /\ UNCHANGED storeVars

(* the global sign-out settles and handleSignOut runs to its end: with no
   error supabase-js has dropped its session, the keys are removed and the
   page becomes /auth; an error, returned or thrown, is caught *)
AfterSignOut(c, outcome) ==
  IF outcome = "ok" THEN OpenAuthPage(RemoveAuthKeys(RemoveSession(c)))
  ELSE [c EXCEPT !.calls["handleSignOut"] = Idle]

handleSignOutResumes ==
  \E outcome \in {"ok"} \cup Failures :
    /\ client.page = "dashboard"
    /\ Call("handleSignOut").h = "handleSignOut"
    /\ client' = AfterSignOut(client, outcome)
    /\ UNCHANGED storeVars

(* the card shown to a visitor without user or profile: Fazer Login *)
FazerLogin ==
  /\ client.page = "dashboard"
  /\ ~client.dashboard.isLoading
  /\ client.dashboard.user = Null \/ client.dashboard.profile = Null
  /\ client' = OpenAuthPage(client)
  /\ UNCHANGED storeVars

(* ---- Dashboard: loading ---- *)
Ids(rows) == {rows[i].id : i \in 1..Len(rows)}

(* the sequences that list the rows of a set once each *)
RECURSIVE Orderings(_)
Orderings(rows) ==
  IF rows = {} THEN {<<>>}
  ELSE UNION {{<<r>> \o rest : rest \in Orderings(rows \ {r})} : r \in rows}

(* Array.prototype.filter and map over a local list *)
filter(list, keep(_)) == SelectSeq(list, keep)

map(list, f(_)) == [i \in 1..Len(list) |-> f(list[i])]

(* a request of handler h on its way, with what the handler holds on to *)
Request(c, h, at, held) ==
  [h |-> h, at |-> at, state |-> "sent", uid |-> RequestUid(c),
   outcome |-> "", data |-> <<>>] @@ held

(* the request of a slot gets its reply *)
Replied(c, slot, outcome, data) ==
  [c EXCEPT !.calls[slot].state = "replied",
            !.calls[slot].outcome = outcome,
            !.calls[slot].data = data]

Awaiting(slot, h, at) ==
  /\ client.page = "dashboard"
  /\ Call(slot).h = h /\ Call(slot).at = at /\ Call(slot).state = "sent"

Resuming(slot, h, at) ==
  /\ client.page = "dashboard"
  /\ Call(slot).h = h /\ Call(slot).at = at /\ Call(slot).state = "replied"

(* loadUserData up to its first await *)
loadUserData(c, userId) ==
  [c EXCEPT !.calls["loadUserData"] =
     Request(c, "loadUserData", "profiles",
             [userId |-> userId, profileData |-> Null, ids |-> {}])]

(* an ending of loadUserData: the finally block *)
(* a load whose finally block does not reach setIsLoading(false) *)
LoadFinally_StillLoading(c) ==
  [c EXCEPT !.calls["loadUserData"] = Idle]

LoadFinally(c) ==
  [c EXCEPT !.dashboard.isLoading = FALSE, !.calls["loadUserData"] = Idle]

(* the effect run at mount: getSession().then(...) *)
DashboardGetSession ==
  /\ client.page = "dashboard"
  /\ Call("loadUserData").h = "getSession"
  /\ client' = IF client.session # Null
               THEN loadUserData([client EXCEPT !.dashboard.user = client.session],
                                 client.session[1])
               ELSE [client EXCEPT !.dashboard.user = Null,
                                   !.dashboard.isLoading = FALSE,
                                   !.calls["loadUserData"] = Idle]
  /\ UNCHANGED storeVars

(* the auth listener on a SIGNED_IN event, as supabase-js sends for the
   stored session: the user is set and the data is loaded again *)
onAuthStateChange ==
  /\ client.page = "dashboard"
  /\ Call("loadUserData").h = "idle"
  /\ client.session # Null
  /\ client' = loadUserData([client EXCEPT !.dashboard.user = client.session],
                            client.session[1])
  /\ UNCHANGED storeVars

ServeSelectProfile ==
  /\ Awaiting("loadUserData", "loadUserData", "profiles")
  /\ LET k == Call("loadUserData")
         rows == {p \in SelectProfiles(DB, k.uid) : p.user_id = k.userId}
     IN client' = IF Cardinality(rows) = 1
                  THEN Replied(client, "loadUserData", "ok", <<CHOOSE p \in rows : TRUE>>)
                  ELSE Replied(client, "loadUserData", "error", <<>>)
  /\ UNCHANGED storeVars

ServeSelectTurmas ==
  /\ Awaiting("loadUserData", "loadUserData", "turmas")
  /\ LET k == Call("loadUserData")
         rows == {t \in SelectTurmas(DB, k.uid) : t.professor_id = k.profileData[1].id}
     IN \E data \in Orderings(rows) :
          client' = Replied(client, "loadUserData", "ok", data)
  /\ UNCHANGED storeVars

(* .in('turma_id', ids), for loadUserData and for handleDeleteTurma *)
ServeSelectAtividadesOf(slot) ==
  /\ Awaiting(slot, Call(slot).h, "atividades")
  /\ LET k == Call(slot)
         rows == {a \in SelectAtividades(DB, k.uid) : a.turma_id \in k.ids}
     IN \E data \in Orderings(rows) :
          client' = Replied(client, slot, "ok", data)
  /\ UNCHANGED storeVars

ServeSelectAtividades ==
  \E slot \in {"loadUserData", "TurmasManager"} : ServeSelectAtividadesOf(slot)

(* loadUserData from the reply of one await to the next await, or to its end *)
loadUserDataResumes(c, k) ==
  IF k.outcome = "throw" THEN LoadFinally(c)
  ELSE IF k.at = "profiles" THEN
    IF k.outcome = "error" THEN LoadFinally(c)
    ELSE [c EXCEPT !.dashboard.profile = Some(k.data[1]),
                   !.calls["loadUserData"] =
                      Request(c, "loadUserData", "turmas",
                              [userId |-> k.userId, profileData |-> Some(k.data[1]),
                               ids |-> {}])]
  ELSE IF k.at = "turmas" THEN
    LET turmasData == IF k.outcome = "error" THEN <<>> ELSE k.data
        c1 == IF k.outcome = "error" THEN c ELSE [c EXCEPT !.dashboard.turmas = k.data]
    IN [c1 EXCEPT !.calls["loadUserData"] =
          Request(c, "loadUserData", "atividades",
                  [userId |-> k.userId, profileData |-> k.profileData,
                   ids |-> Ids(turmasData)])]
  ELSE
    LoadFinally(IF k.outcome = "error" THEN c
                ELSE [c EXCEPT !.dashboard.atividades = k.data])

loadUserDataContinues ==
  /\ client.page = "dashboard"
  /\ Call("loadUserData").h = "loadUserData" /\ Call("loadUserData").state = "replied"
  /\ client' = loadUserDataResumes(client, Call("loadUserData"))
  /\ UNCHANGED storeVars

(* a request that comes back with an error object although the backend did
   not run it, or whose promise rejects *)
RequestFailsOf(slot) ==
  \E outcome \in Failures :
    /\ client.page = "dashboard"
    /\ Call(slot).state = "sent"
    /\ client' = Replied(client, slot, outcome, <<>>)
    /\ UNCHANGED storeVars

RequestFails ==
  \E slot \in {"loadUserData", "TurmasManager", "AtividadesManager"} : RequestFailsOf(slot)

(* ---- the ids gen_random_uuid() can give a new row: those that occur ---- *)
(* ---- nowhere, neither in the store nor in anything the client holds ---- *)
RowTurmaIds(rows) ==
  UNION {IF "turma_id" \in DOMAIN rows[i] THEN {rows[i].turma_id}
         ELSE IF "id" \in DOMAIN rows[i] THEN {rows[i].id} ELSE {}
         : i \in 1..Len(rows)}

RowAtividadeIds(rows) ==
  UNION {IF "turma_id" \in DOMAIN rows[i] /\ "id" \in DOMAIN rows[i]
         THEN {rows[i].id} ELSE {}
         : i \in 1..Len(rows)}

Held(k, field, default) == IF field \in DOMAIN k THEN k[field] ELSE default

CallTurmaIds(k) ==
  RowTurmaIds(Held(k, "data", <<>>)) \cup RowTurmaIds(Held(k, "turmas", <<>>))
  \cup RowTurmaIds(Held(k, "atividades", <<>>)) \cup Held(k, "ids", {})
  \cup RowTurmaIds(Held(k, "row", <<>>)) \cup Held(k, "turmaId", {})

CallAtividadeIds(k) ==
  RowAtividadeIds(Held(k, "data", <<>>)) \cup RowAtividadeIds(Held(k, "atividades", <<>>))
  \cup Held(k, "atividadeId", {})

FreshTurmaIds ==
  ClientTurmaIds \ ({t.id : t \in turmas} \cup {a.turma_id : a \in atividades}
                    \cup RowTurmaIds(client.dashboard.turmas)
                    \cup RowTurmaIds(client.dashboard.atividades)
                    \cup {client.atividadesManager.formData.turma_id[i] :
                            i \in 1..Len(client.atividadesManager.formData.turma_id)}
                    \cup UNION {CallTurmaIds(client.calls[slot]) : slot \in Slots})

FreshAtividadeIds ==
  ClientAtividadeIds \ ({a.id : a \in atividades}
                        \cup RowAtividadeIds(client.dashboard.atividades)
                        \cup UNION {CallAtividadeIds(client.calls[slot]) : slot \in Slots})

(* ---- TurmasManager ---- *)
TurmaForms == [nome : {"", "5A"}, periodo : {"", "matutino"}]
FilledTurmaForms == [nome : {"5A"}, periodo : {"matutino"}]

(* a validation that lets every form through *)
TurmaFormValid_Any(f) == TRUE

TurmaFormValid(f) == ~(f.nome = "" \/ f.periodo = "")

(* the form is filled in and submitted *)
SubmitTurma(forms) ==
  \E f \in forms :
    /\ Rendered(client)
    /\ Call("TurmasManager").h = "idle"
    /\ ~client.turmasManager.isLoading
    /\ LET typed == [client EXCEPT !.turmasManager.isDialogOpen = TRUE,
                                   !.turmasManager.formData = f] IN
       client' =
         IF ~TurmaFormValid(f) THEN typed
         ELSE [typed EXCEPT
                 !.turmasManager.isLoading = TRUE,
                 !.calls["TurmasManager"] =
                    Request(typed, "handleCreateTurma", "insert",
                            [turmas |-> typed.dashboard.turmas,
                             row |-> <<[professor_id |-> typed.dashboard.profile[1].id,
                                        nome |-> f.nome, periodo |-> f.periodo]>>])]
    /\ UNCHANGED storeVars

handleCreateTurma == SubmitTurma(FilledTurmaForms)

ServeInsertTurma ==
  /\ Awaiting("TurmasManager", "handleCreateTurma", "insert")
  /\ \E id \in FreshTurmaIds :
       LET k == Call("TurmasManager")
           row == [id |-> id] @@ k.row[1]
           r == InsertTurma(DB, k.uid, row)
       IN
       /\ auth_users' = r.s.users /\ profiles' = r.s.profiles
       /\ turmas' = r.s.turmas /\ atividades' = r.s.atividades
       /\ actor' = Actor(r, k.uid)
       /\ now' = now
       /\ client' = IF r.code = OK
                    THEN Replied(client, "TurmasManager", "ok", <<TurmasNewRow(DB, row)>>)
                    ELSE Replied(client, "TurmasManager", "error", <<>>)

(* the finally block of the two TurmasManager handlers *)
(* a handler whose finally block does not reach setIsLoading(false) *)
TurmasManagerFinally_StillLoading(c) ==
  [c EXCEPT !.calls["TurmasManager"] = Idle]

TurmasManagerFinally(c) ==
  [c EXCEPT !.turmasManager.isLoading = FALSE, !.calls["TurmasManager"] = Idle]

handleCreateTurmaResumes(c, k) ==
  IF k.outcome # "ok" THEN TurmasManagerFinally(c)
  ELSE TurmasManagerFinally([c EXCEPT !.dashboard.turmas = k.data \o k.turmas,
                   !.turmasManager.formData = TurmasFormInit,
                   !.turmasManager.isDialogOpen = FALSE])

handleCreateTurmaContinues ==
  /\ Resuming("TurmasManager", "handleCreateTurma", "insert")
  /\ client' = handleCreateTurmaResumes(client, Call("TurmasManager"))
  /\ UNCHANGED storeVars

handleDeleteTurma ==
  \E turmaId \in Ids(client.dashboard.turmas) :
    /\ Rendered(client)
    /\ Call("TurmasManager").h = "idle"
    /\ ~client.turmasManager.isLoading
    /\ client' = [client EXCEPT
         !.turmasManager.isLoading = TRUE,
         !.calls["TurmasManager"] =
            Request(client, "handleDeleteTurma", "delete",
                    [turmas |-> client.dashboard.turmas, turmaId |-> {turmaId},
                     ids |-> {}])]
    /\ UNCHANGED storeVars

ServeDeleteTurma ==
  /\ Awaiting("TurmasManager", "handleDeleteTurma", "delete")
  /\ LET k == Call("TurmasManager")
         r == DeleteTurma(DB, k.uid, CHOOSE id \in k.turmaId : TRUE)
     IN
     /\ auth_users' = r.s.users /\ profiles' = r.s.profiles
     /\ turmas' = r.s.turmas /\ atividades' = r.s.atividades
     /\ actor' = Actor(r, k.uid)
     /\ now' = now
     /\ client' = Replied(client, "TurmasManager", IF r.code = OK THEN "ok" ELSE "error", <<>>)

(* a delete that leaves the atividades list as it is *)
handleDeleteTurmaResumes_KeepAtividades(c, k) ==
  LET remaining == filter(k.turmas, LAMBDA t : t.id \notin k.turmaId) IN
  IF k.at = "delete" THEN
    IF k.outcome # "ok" THEN TurmasManagerFinally(c)
    ELSE [c EXCEPT !.dashboard.turmas = remaining,
                   !.calls["TurmasManager"] =
                      Request(c, "handleDeleteTurma", "atividades",
                              [turmas |-> k.turmas, turmaId |-> k.turmaId,
                               ids |-> Ids(remaining)])]
  ELSE TurmasManagerFinally(c)

(* handleDeleteTurma from the reply of one await to the next, or to its end;
   the reload destructures data only, so its error leaves an empty list *)
handleDeleteTurmaResumes(c, k) ==
  LET remaining == filter(k.turmas, LAMBDA t : t.id \notin k.turmaId) IN
  IF k.at = "delete" THEN
    IF k.outcome # "ok" THEN TurmasManagerFinally(c)
    ELSE [c EXCEPT !.dashboard.turmas = remaining,
                   !.calls["TurmasManager"] =
                      Request(c, "handleDeleteTurma", "atividades",
                              [turmas |-> k.turmas, turmaId |-> k.turmaId,
                               ids |-> Ids(remaining)])]
  ELSE
    IF k.outcome = "throw" THEN TurmasManagerFinally(c)
    ELSE TurmasManagerFinally([c EXCEPT !.dashboard.atividades = k.data])

handleDeleteTurmaContinues ==
  /\ client.page = "dashboard"
  /\ Call("TurmasManager").h = "handleDeleteTurma"
  /\ Call("TurmasManager").state = "replied"
  /\ client' = handleDeleteTurmaResumes(client, Call("TurmasManager"))
  /\ UNCHANGED storeVars

(* ---- AtividadesManager ---- *)
(* the form offers the five tipos and the turmas of the local list; it has
   no control for status *)
AtividadeForms(c) ==
  [titulo : {"", "Prova"}, tipo : {"", "prova"},
   turma_id : {Null} \cup {Some(id) : id \in Ids(c.dashboard.turmas)}]

FilledAtividadeForms(c) ==
  [titulo : {"Prova"}, tipo : {"prova"},
   turma_id : {Some(id) : id \in Ids(c.dashboard.turmas)}]

AtividadeFormValid(f) == ~(f.titulo = "" \/ f.tipo = "" \/ f.turma_id = Null)

SubmitAtividade(forms) ==
  \E f \in forms :
    /\ Rendered(client)
    /\ Call("AtividadesManager").h = "idle"
    /\ ~client.atividadesManager.isLoading
    /\ LET formData == [client.atividadesManager.formData EXCEPT
                          !.titulo = f.titulo, !.tipo = f.tipo, !.turma_id = f.turma_id]
           typed == [client EXCEPT !.atividadesManager.isDialogOpen = TRUE,
                                   !.atividadesManager.formData = formData] IN
       client' =
         IF ~AtividadeFormValid(formData) THEN typed
         ELSE [typed EXCEPT
                 !.atividadesManager.isLoading = TRUE,
                 !.calls["AtividadesManager"] =
                    Request(typed, "handleCreateAtividade", "insert",
                            [atividades |-> typed.dashboard.atividades,
                             row |-> <<[turma_id |-> formData.turma_id[1],
                                        titulo |-> formData.titulo,
                                        tipo |-> formData.tipo,
                                        status |-> formData.status]>>])]
    /\ UNCHANGED storeVars

handleCreateAtividade == SubmitAtividade(FilledAtividadeForms(client))

ServeInsertAtividade ==
  /\ Awaiting("AtividadesManager", "handleCreateAtividade", "insert")
  /\ \E id \in FreshAtividadeIds :
       LET k == Call("AtividadesManager")
           row == [id |-> id] @@ k.row[1]
           r == InsertAtividade(DB, k.uid, row)
       IN
       /\ auth_users' = r.s.users /\ profiles' = r.s.profiles
       /\ turmas' = r.s.turmas /\ atividades' = r.s.atividades
       /\ actor' = Actor(r, k.uid)
       /\ now' = now
       /\ client' = IF r.code = OK
                    THEN Replied(client, "AtividadesManager", "ok",
                                 <<AtividadesNewRow(DB, row)>>)
                    ELSE Replied(client, "AtividadesManager", "error", <<>>)

(* the finally block of the three AtividadesManager handlers *)
AtividadesManagerFinally(c) ==
  [c EXCEPT !.atividadesManager.isLoading = FALSE, !.calls["AtividadesManager"] = Idle]

(* a create that closes the dialog and clears the form on an error too *)
handleCreateAtividadeResumes_ResetOnError(c, k) ==
  AtividadesManagerFinally(
    [c EXCEPT !.dashboard.atividades =
                 IF k.outcome # "ok" THEN @ ELSE k.data \o k.atividades,
              !.atividadesManager.formData = AtividadesFormInit,
              !.atividadesManager.isDialogOpen = FALSE])

handleCreateAtividadeResumes(c, k) ==
  IF k.outcome # "ok" THEN AtividadesManagerFinally(c)
  ELSE AtividadesManagerFinally([c EXCEPT !.dashboard.atividades = k.data \o k.atividades,
                   !.atividadesManager.formData = AtividadesFormInit,
                   !.atividadesManager.isDialogOpen = FALSE])

handleCreateAtividadeContinues ==
  /\ Resuming("AtividadesManager", "handleCreateAtividade", "insert")
  /\ client' = handleCreateAtividadeResumes(client, Call("AtividadesManager"))
  /\ UNCHANGED storeVars

handleDeleteAtividade ==
  \E atividadeId \in Ids(client.dashboard.atividades) :
    /\ Rendered(client)
    /\ Call("AtividadesManager").h = "idle"
    /\ ~client.atividadesManager.isLoading
    /\ client' = [client EXCEPT
         !.atividadesManager.isLoading = TRUE,
         !.calls["AtividadesManager"] =
            Request(client, "handleDeleteAtividade", "delete",
                    [atividades |-> client.dashboard.atividades,
                     atividadeId |-> {atividadeId}])]
    /\ UNCHANGED storeVars

ServeDeleteAtividade ==
  /\ Awaiting("AtividadesManager", "handleDeleteAtividade", "delete")
  /\ LET k == Call("AtividadesManager")
         r == DeleteAtividade(DB, k.uid, CHOOSE id \in k.atividadeId : TRUE)
     IN
     /\ auth_users' = r.s.users /\ profiles' = r.s.profiles
     /\ turmas' = r.s.turmas /\ atividades' = r.s.atividades
     /\ actor' = Actor(r, k.uid)
     /\ now' = now
     /\ client' = Replied(client, "AtividadesManager",
                          IF r.code = OK THEN "ok" ELSE "error", <<>>)

handleDeleteAtividadeResumes(c, k) ==
  IF k.outcome # "ok" THEN AtividadesManagerFinally(c)
  ELSE AtividadesManagerFinally([c EXCEPT !.dashboard.atividades =
                      filter(k.atividades, LAMBDA a : a.id \notin k.atividadeId)])

handleDeleteAtividadeContinues ==
  /\ Resuming("AtividadesManager", "handleDeleteAtividade", "delete")
  /\ client' = handleDeleteAtividadeResumes(client, Call("AtividadesManager"))
  /\ UNCHANGED storeVars

(* buttons that also reopen an activity that is not ativa *)
StatusButtons_Reopen(a) == IF a.status = "ativa" THEN {"finalizada"} ELSE {"ativa"}

(* the status a listed activity's button sends: only Finalizar, and only on
   an activity shown as ativa *)
StatusButtons(a) == IF a.status = "ativa" THEN {"finalizada"} ELSE {}

handleUpdateStatus ==
  \E i \in 1..Len(client.dashboard.atividades) :
    \E novoStatus \in StatusButtons(client.dashboard.atividades[i]) :
      /\ Rendered(client)
      /\ Call("AtividadesManager").h = "idle"
      /\ ~client.atividadesManager.isLoading
      /\ client' = [client EXCEPT
           !.atividadesManager.isLoading = TRUE,
           !.calls["AtividadesManager"] =
              Request(client, "handleUpdateStatus", "update",
                      [atividades |-> client.dashboard.atividades,
                       atividadeId |-> {client.dashboard.atividades[i].id},
                       novoStatus |-> novoStatus])]
      /\ UNCHANGED storeVars

(* .update({status}).eq('id', id).select().single(): no row, no data *)
ServeUpdateStatus ==
  /\ Awaiting("AtividadesManager", "handleUpdateStatus", "update")
  /\ LET k == Call("AtividadesManager")
         id == CHOOSE x \in k.atividadeId : TRUE
         r == UpdateAtividade(DB, k.uid, id, [col |-> "status", val |-> k.novoStatus])
     IN
     /\ auth_users' = r.s.users /\ profiles' = r.s.profiles
     /\ turmas' = r.s.turmas /\ atividades' = r.s.atividades
     /\ actor' = Actor(r, k.uid)
     /\ now' = now
     /\ client' = IF r.code = OK /\ r.n = 1
                  THEN Replied(client, "AtividadesManager", "ok",
                               <<CHOOSE a \in r.s.atividades : a.id = id>>)
                  ELSE Replied(client, "AtividadesManager", "error", <<>>)

handleUpdateStatusResumes(c, k) ==
  IF k.outcome # "ok" THEN AtividadesManagerFinally(c)
  ELSE AtividadesManagerFinally([c EXCEPT !.dashboard.atividades =
                      map(k.atividades,
                          LAMBDA a : IF a.id \in k.atividadeId THEN k.data[1] ELSE a)])

handleUpdateStatusContinues ==
  /\ Resuming("AtividadesManager", "handleUpdateStatus", "update")
  /\ client' = handleUpdateStatusResumes(client, Call("AtividadesManager"))
  /\ UNCHANGED storeVars

(* ---- the client and its backend ---- *)
(* signing up and in, the Dashboard's load and the five manager handlers
   with their forms filled in, every request free to fail *)
ClientNext ==
  \/ checkUser
  \/ handleSignIn
  \/ handleSignUp
  \/ AuthPageSignOutSettles
  \/ ServeSignIn
  \/ ServeSignUp
  \/ CredentialsFail
  \/ handleSignInResumes
  \/ handleSignUpResumes
  \/ FazerLogin
  \/ DashboardGetSession
  \/ ServeSelectProfile
  \/ ServeSelectTurmas
  \/ ServeSelectAtividades
  \/ loadUserDataContinues
  \/ RequestFails
  \/ handleCreateTurma
  \/ ServeInsertTurma
  \/ handleCreateTurmaContinues
  \/ handleDeleteTurma
  \/ ServeDeleteTurma
  \/ handleDeleteTurmaContinues
  \/ handleCreateAtividade
  \/ ServeInsertAtividade
  \/ handleCreateAtividadeContinues
  \/ handleDeleteAtividade
  \/ ServeDeleteAtividade
  \/ handleDeleteAtividadeContinues
  \/ handleUpdateStatus
  \/ ServeUpdateStatus
  \/ handleUpdateStatusContinues

ClientSpec == Init /\ [][ClientNext]_vars

(* the same, with what the event loop and the network guarantee: an effect
   runs, a request that was sent gets a reply or fails, and a handler whose
   reply has arrived resumes *)
Settles(slot) ==
  \/ slot = "AuthPage" /\ (AuthPageSignOutSettles \/ ServeSignIn \/ ServeSignUp
                            \/ CredentialsFail)
  \/ slot = "loadUserData" /\ (ServeSelectProfile \/ ServeSelectTurmas
                               \/ ServeSelectAtividadesOf(slot) \/ RequestFailsOf(slot))
  \/ slot = "TurmasManager" /\ (ServeInsertTurma \/ ServeDeleteTurma
                                \/ ServeSelectAtividadesOf(slot) \/ RequestFailsOf(slot))
  \/ slot = "AtividadesManager" /\ (ServeInsertAtividade \/ ServeDeleteAtividade
                                    \/ ServeUpdateStatus \/ RequestFailsOf(slot))

Resumes(slot) ==
  \/ slot = "AuthPage" /\ (checkUser \/ handleSignInResumes \/ handleSignUpResumes)
  \/ slot = "loadUserData" /\ (DashboardGetSession \/ loadUserDataContinues)
  \/ slot = "TurmasManager" /\ (handleCreateTurmaContinues \/ handleDeleteTurmaContinues)
  \/ slot = "AtividadesManager" /\ (handleCreateAtividadeContinues
                                    \/ handleDeleteAtividadeContinues
                                    \/ handleUpdateStatusContinues)

FairSlots == Slots \ {"handleSignOut"}

LiveSpec ==
  /\ ClientSpec
  /\ \A slot \in FairSlots : WF_vars(Settles(slot)) /\ WF_vars(Resumes(slot))

(* one session whose requests all reach the backend: the six handlers of
   the Dashboard and its managers, interleaved *)
InterleaveNext ==
  \/ checkUser
  \/ handleSignIn
  \/ handleSignUp
  \/ AuthPageSignOutSettles
  \/ ServeSignIn
  \/ ServeSignUp
  \/ CredentialsFail
  \/ handleSignInResumes
  \/ handleSignUpResumes
  \/ FazerLogin
  \/ DashboardGetSession
  \/ onAuthStateChange
  \/ ServeSelectProfile
  \/ ServeSelectTurmas
  \/ ServeSelectAtividades
  \/ loadUserDataContinues
  \/ handleCreateTurma
  \/ ServeInsertTurma
  \/ handleCreateTurmaContinues
  \/ handleDeleteTurma
  \/ ServeDeleteTurma
  \/ handleDeleteTurmaContinues
  \/ handleCreateAtividade
  \/ ServeInsertAtividade
  \/ handleCreateAtividadeContinues
  \/ handleDeleteAtividade
  \/ ServeDeleteAtividade
  \/ handleDeleteAtividadeContinues
  \/ handleUpdateStatus
  \/ ServeUpdateStatus
  \/ handleUpdateStatusContinues

InterleaveSpec == Init /\ [][InterleaveNext]_vars

(* the session's way in and out: the auth page, the Dashboard's load and
   its sign-out *)
AuthNext ==
  \/ checkUser
  \/ handleSignIn
  \/ handleSignUp
  \/ AuthPageSignOutSettles
  \/ ServeSignIn
  \/ ServeSignUp
  \/ CredentialsFail
  \/ handleSignInResumes
  \/ handleSignUpResumes
  \/ FazerLogin
  \/ DashboardGetSession
  \/ onAuthStateChange
  \/ ServeSelectProfile
  \/ ServeSelectTurmas
  \/ ServeSelectAtividades
  \/ loadUserDataContinues
  \/ RequestFails
  \/ handleSignOut
  \/ handleSignOutResumes

AuthSpec == Init /\ [][AuthNext]_vars

(* the four forms, submitted filled in or not *)
SubmitTurmaForm == SubmitTurma(TurmaForms)

SubmitAtividadeForm == SubmitAtividade(AtividadeForms(client))

FormNext ==
  \/ checkUser
  \/ handleSignIn
  \/ handleSignUp
  \/ AuthPageSignOutSettles
  \/ ServeSignIn
  \/ ServeSignUp
  \/ CredentialsFail
  \/ handleSignInResumes
  \/ handleSignUpResumes
  \/ FazerLogin
  \/ DashboardGetSession
  \/ ServeSelectProfile
  \/ ServeSelectTurmas
  \/ ServeSelectAtividades
  \/ loadUserDataContinues
  \/ SubmitTurmaForm
  \/ ServeInsertTurma
  \/ handleCreateTurmaContinues
  \/ SubmitAtividadeForm
  \/ ServeInsertAtividade
  \/ handleCreateAtividadeContinues

FormSpec == Init /\ [][FormNext]_vars

TypeOK ==
  /\ \A u \in auth_users : u.id \in UserIds /\ u.email \in Emails
  /\ \A p \in profiles : /\ p.id \in ProfileIds /\ p.user_id \in UserIds
                         /\ p.nome \in ProfileNomes \cup FullNames /\ p.email \in Emails
  /\ \A t \in turmas : /\ t.id \in TurmaIds /\ t.professor_id \in ProfileIds
                       /\ t.nome \in TurmaNomes
  /\ \A a \in atividades : /\ a.id \in AtividadeIds /\ a.turma_id \in TurmaIds
                           /\ a.titulo \in Titulos
  /\ \A r \in profiles \cup turmas \cup atividades : r.updated_at \in Stamps
  /\ now \in Clock
  /\ actor \in UserIds \cup {0}

(* ---------------------------------------------------------------------- *)
(* Ownership, by the foreign keys alone                                    *)
(* ---------------------------------------------------------------------- *)
(* the identities that own a turma / an atividade of store s *)
TurmaOwners(s, t) == {p.user_id : p \in {q \in s.profiles : q.id = t.professor_id}}

AtividadeOwners(s, a) ==
  UNION {TurmaOwners(s, t) : t \in {r \in s.turmas : r.id = a.turma_id}}

(* the ownership chain of identity u in store s *)
ChainOf(s, u) ==
  [profiles |-> {p \in s.profiles : p.user_id = u},
   turmas |-> {t \in s.turmas : u \in TurmaOwners(s, t)},
   atividades |-> {a \in s.atividades : u \in AtividadeOwners(s, a)}]

ValidPeriodoPatches == [col : {"periodo"}, val : Periodos \cup {NULL}]

ValidStatusPatches == [col : {"status"}, val : StatusValues]

(* ---------------------------------------------------------------------- *)
(* C1: a Class is selected, updated and deleted by the identity of its     *)
(* owning Profile; any other identity selects zero rows of it, and its     *)
(* UPDATE or DELETE affects zero rows and leaves the store unchanged.      *)
(* ---------------------------------------------------------------------- *)
C1_ClassOwnerAccess ==
  \A p \in profiles, c \in turmas :
    c.professor_id = p.id =>
      /\ c \in SelectTurmas(DB, p.user_id)
      /\ \A patch \in ValidPeriodoPatches :
           LET r == UpdateTurma(DB, p.user_id, c.id, patch) IN
           /\ r.code = OK /\ r.n = 1
           /\ [c EXCEPT !.periodo = patch.val, !.updated_at = now] \in r.s.turmas
      /\ LET r == DeleteTurma(DB, p.user_id, c.id) IN
         /\ r.code = OK /\ r.n = 1
         /\ c \notin r.s.turmas
      /\ \A u \in UserIds \ {p.user_id} :
           /\ c \notin SelectTurmas(DB, u)
           /\ \A patch \in TurmaPatches :
                LET r == UpdateTurma(DB, u, c.id, patch) IN
                r.code = OK /\ r.n = 0 /\ r.s = DB
           /\ LET r == DeleteTurma(DB, u, c.id) IN
              r.code = OK /\ r.n = 0 /\ r.s = DB

(* the owner's statement took effect on a Class that another existing
   identity, with a Profile of its own, cannot see or delete *)
C1_Witness ==
  \E p \in profiles, q \in profiles, c \in turmas :
    /\ c.professor_id = p.id
    /\ q.user_id # p.user_id
    /\ actor = p.user_id
    /\ c.periodo = "matutino"
    /\ SelectTurmas(DB, q.user_id) = {}
    /\ DeleteTurma(DB, q.user_id, c.id).n = 0
    /\ DeleteTurma(DB, p.user_id, c.id).n = 1

(* ---------------------------------------------------------------------- *)
(* C2: a SELECT, INSERT, UPDATE or DELETE touches an Assignment only when  *)
(* the identity that owns the Profile that owns its Class is the caller;   *)
(* a SELECT by another identity returns none of the Assignments.           *)
(* ---------------------------------------------------------------------- *)
C2_AssignmentOwnerOnly ==
  \A u \in UserIds :
    /\ SelectAtividades(DB, u) = ChainOf(DB, u).atividades
    /\ \A row \in AtividadeRows :
         InsertAtividade(DB, u, row).code = OK =>
           \E t \in turmas : t.id = row.turma_id /\ TurmaOwners(DB, t) = {u}
    /\ \A a \in atividades :
         u \notin AtividadeOwners(DB, a) =>
           /\ \A patch \in AtividadePatches :
                LET r == UpdateAtividade(DB, u, a.id, patch) IN
                r.code = OK /\ r.n = 0 /\ r.s = DB
           /\ LET r == DeleteAtividade(DB, u, a.id) IN
              r.code = OK /\ r.n = 0 /\ r.s = DB
    /\ \A a \in atividades :
         u \in AtividadeOwners(DB, a) =>
           /\ \A patch \in ValidStatusPatches :
                LET r == UpdateAtividade(DB, u, a.id, patch) IN
                /\ r.code = OK /\ r.n = 1
                /\ [a EXCEPT !.status = patch.val, !.updated_at = now]
                     \in r.s.atividades
           /\ LET r == DeleteAtividade(DB, u, a.id) IN r.n = 1 /\ a \notin r.s.atividades

(* identity u1 created a Class and an Assignment in it; the SELECT of a
   distinct existing identity u2 returns an empty result *)
C2_Witness ==
  \E a \in atividades, p2 \in profiles :
    /\ actor \in AtividadeOwners(DB, a)
    /\ p2.user_id \notin AtividadeOwners(DB, a)
    /\ p2.user_id \in {x.id : x \in auth_users}
    /\ SelectAtividades(DB, actor) = {a}
    /\ SelectAtividades(DB, p2.user_id) = {}

(* ---------------------------------------------------------------------- *)
(* C3: in every interleaving of the callers' requests, a statement that    *)
(* takes effect on behalf of identity u2 inserts no row into, and changes  *)
(* or deletes no row of, the ownership chain of another identity u1.       *)
(* ---------------------------------------------------------------------- *)
C3_CallerIsolation ==
  [][\A u1 \in UserIds :
       (actor' # 0 /\ actor' # u1) => ChainOf(DB, u1)' = ChainOf(DB, u1)]_vars

(* both identities hold a chain, one of them with a Class, while the
   latest statement that took effect was the other identity's *)
C3_Witness ==
  \E u1 \in UserIds, u2 \in UserIds :
    /\ u1 # u2
    /\ actor = u2
    /\ ChainOf(DB, u1).turmas # {}
    /\ ChainOf(DB, u1).atividades # {}
    /\ \E p \in ChainOf(DB, u2).profiles : p.nome = "Ana"

(* ---------------------------------------------------------------------- *)
(* C4: what a caller observes of a request (the rows returned, or the      *)
(* SQLSTATE and the number of rows affected) is the same in two stores     *)
(* that differ only in rows outside the caller's ownership chain: here the *)
(* store as it is, and the store without another identity v and its chain, *)
(* for every caller u that is an existing identity.                        *)
(* ---------------------------------------------------------------------- *)
Without(s, v) == CascadeUsers(s, {x \in s.users : x.id = v})

Observed(r) == <<r.code, r.n>>

C4_NoExistenceLeak ==
  \A u \in {x.id : x \in auth_users} : \A v \in UserIds \ {u} :
    LET s1 == DB
        s2 == Without(DB, v)
    IN /\ SelectProfiles(s1, u) = SelectProfiles(s2, u)
       /\ SelectTurmas(s1, u) = SelectTurmas(s2, u)
       /\ SelectAtividades(s1, u) = SelectAtividades(s2, u)
       /\ \A row \in ProfileRows :
            Observed(InsertProfile(s1, u, row)) = Observed(InsertProfile(s2, u, row))
       /\ \A row \in TurmaRows :
            Observed(InsertTurma(s1, u, row)) = Observed(InsertTurma(s2, u, row))
       /\ \A row \in AtividadeRows :
            Observed(InsertAtividade(s1, u, row)) = Observed(InsertAtividade(s2, u, row))
       /\ \A id \in ProfileIds :
            /\ \A patch \in ProfilePatches :
                 Observed(UpdateProfile(s1, u, id, patch))
                   = Observed(UpdateProfile(s2, u, id, patch))
            /\ Observed(DeleteProfile(s1, u, id)) = Observed(DeleteProfile(s2, u, id))
       /\ \A id \in TurmaIds :
            /\ \A patch \in TurmaPatches :
                 Observed(UpdateTurma(s1, u, id, patch))
                   = Observed(UpdateTurma(s2, u, id, patch))
            /\ Observed(DeleteTurma(s1, u, id)) = Observed(DeleteTurma(s2, u, id))
       /\ \A id \in AtividadeIds :
            /\ \A patch \in AtividadePatches :
                 Observed(UpdateAtividade(s1, u, id, patch))
                   = Observed(UpdateAtividade(s2, u, id, patch))
            /\ Observed(DeleteAtividade(s1, u, id)) = Observed(DeleteAtividade(s2, u, id))

(* ---------------------------------------------------------------------- *)
(* C5: creating identity I leaves exactly one Profile with user_id = I, in *)
(* the same step: a creation that does not raise adds I and that Profile   *)
(* together, and no reachable state holds an identity without a Profile.   *)
(* ---------------------------------------------------------------------- *)
ProfilesOf(s, id) == {p \in s.profiles : p.user_id = id}

C5_ProfileWithIdentity ==
  /\ \A u \in auth_users : ProfilesOf(DB, u.id) # {}
  /\ \A new_user \in NewUsers, pid \in ProfileIds :
       LET r == on_auth_user_created(DB, new_user, pid) IN
       IF r.code = OK
       THEN /\ new_user.id \notin {u.id : u \in auth_users}
            /\ new_user.id \in {u.id : u \in r.s.users}
            /\ Cardinality(ProfilesOf(r.s, new_user.id)) = 1
            /\ ProfilesOf(DB, new_user.id) = {}
       ELSE r.s = DB

(* the identity service's creation was the latest statement to take
   effect: both identities exist, each with its Profile *)
C5_Witness ==
  /\ actor = 0
  /\ {u.id : u \in auth_users} = UserIds
  /\ \A id \in UserIds : Cardinality(ProfilesOf(DB, id)) = 1

(* ---------------------------------------------------------------------- *)
(* C6: in every reachable state each existing identity has exactly one     *)
(* Profile.                                                                *)
(* ---------------------------------------------------------------------- *)
C6_OneProfilePerIdentity ==
  \A u \in auth_users : Cardinality(ProfilesOf(DB, u.id)) = 1

(* an identity whose statement took effect holds one Profile while a
   profile id is free, and its INSERT of a second Profile for itself
   raises the unique violation *)
C6_Witness ==
  \E u \in auth_users, row \in ProfileRows :
    /\ actor = u.id
    /\ row.user_id = u.id
    /\ row.id \notin {p.id : p \in profiles}
    /\ Cardinality(ProfilesOf(DB, u.id)) = 1
    /\ InsertProfile(DB, u.id, row).code = UniqueViolation

(* ---------------------------------------------------------------------- *)
(* C7: when the provisioning trigger's insert raises, the creation of the  *)
(* identity raises and leaves the store as it was (no new identity, no new *)
(* Profile); a creation never leaves two Profiles for one identity.        *)
(* ---------------------------------------------------------------------- *)
C7_FailedProvisioningRollsBack ==
  \A new_user \in NewUsers, pid \in ProfileIds :
    LET row == [id |-> new_user.id, email |-> new_user.email]
        t == handle_new_user([DB EXCEPT !.users = auth_users \cup {row}], new_user, pid)
        r == on_auth_user_created(DB, new_user, pid)
    IN /\ (new_user.id \notin {u.id : u \in auth_users} /\ t.code # OK) =>
            /\ r.code = t.code
            /\ r.s = DB
            /\ new_user.id \notin {u.id : u \in r.s.users}
            /\ ProfilesOf(r.s, new_user.id) = {}
       /\ Cardinality(ProfilesOf(r.s, new_user.id)) <= 1

(* one identity exists; creating the other one without an email makes the
   trigger's insert raise the not-null violation, and the store stays *)
C7_Witness ==
  \E new_user \in NewUsers, pid \in FreeProfileIds :
    /\ auth_users # {}
    /\ new_user.id \notin {u.id : u \in auth_users}
    /\ new_user.email = NULL
    /\ on_auth_user_created(DB, new_user, pid).code = NotNullViolation
    /\ on_auth_user_created(DB, new_user, pid).s = DB

(* ---------------------------------------------------------------------- *)
(* C8: deleting a Class deletes, in the same step, exactly the Assignments *)
(* whose turma_id is its id; no reachable state holds an Assignment of a   *)
(* Class that is gone.                                                     *)
(* ---------------------------------------------------------------------- *)
C8_ClassDeleteCascades ==
  /\ \A a \in atividades : \E t \in turmas : t.id = a.turma_id
  /\ \A c \in turmas, u \in UserIds :
       LET r == DeleteTurma(DB, u, c.id) IN
       r.n = 1 =>
         /\ r.s.turmas = turmas \ {c}
         /\ r.s.atividades = {a \in atividades : a.turma_id # c.id}
         /\ r.s.profiles = profiles /\ r.s.users = auth_users

(* a Class with an Assignment, whose owner's DELETE of the Class leaves
   neither *)
C8_Witness ==
  \E c \in turmas, a \in atividades, p \in profiles :
    /\ a.turma_id = c.id
    /\ c.professor_id = p.id
    /\ actor = p.user_id
    /\ DeleteTurma(DB, p.user_id, c.id).n = 1
    /\ DeleteTurma(DB, p.user_id, c.id).s.atividades = {}

(* ---------------------------------------------------------------------- *)
(* C9: deleting an identity deletes its Profile, the Classes of that       *)
(* Profile and their Assignments, and leaves every other row as it was.    *)
(* ---------------------------------------------------------------------- *)
C9_IdentityDeleteCascades ==
  \A u \in auth_users :
    LET r == DeleteUser(DB, u.id)
        chain == ChainOf(DB, u.id)
    IN /\ r.code = OK /\ r.n = 1
       /\ r.s.users = auth_users \ {u}
       /\ r.s.profiles = profiles \ chain.profiles
       /\ r.s.turmas = turmas \ chain.turmas
       /\ r.s.atividades = atividades \ chain.atividades
       /\ \A v \in UserIds \ {u.id} : ChainOf(r.s, v) = ChainOf(DB, v)

(* an identity with a Profile, a Class and an Assignment beside another
   identity with its Profile: deleting the first leaves only the second's
   Profile *)
C9_Witness ==
  \E u \in auth_users, v \in auth_users :
    /\ u # v
    /\ ChainOf(DB, u.id).turmas # {}
    /\ ChainOf(DB, u.id).atividades # {}
    /\ ChainOf(DB, v.id).profiles # {}
    /\ DeleteUser(DB, u.id).s =
         [users |-> {v}, profiles |-> ChainOf(DB, v.id).profiles,
          turmas |-> {}, atividades |-> {}, now |-> now]

(* ---------------------------------------------------------------------- *)
(* C10: in every reachable state every Class's professor_id is the id of   *)
(* an existing Profile and every Assignment's turma_id is the id of an     *)
(* existing Class (and every Profile's user_id the id of an identity).     *)
(* ---------------------------------------------------------------------- *)
C10_ReferentialIntegrity ==
  /\ \A t \in turmas : t.professor_id \in {p.id : p \in profiles}
  /\ \A a \in atividades : a.turma_id \in {t.id : t \in turmas}
  /\ \A p \in profiles : p.user_id \in {u.id : u \in auth_users}

(* a Profile referenced by a Class, with a Class referenced by an
   Assignment: changing the Profile's id to a free one raises the
   foreign-key violation *)
C10_Witness ==
  \E p \in profiles, t \in turmas, a \in atividades, id \in FreeProfileIds :
    /\ t.professor_id = p.id
    /\ a.turma_id = t.id
    /\ actor = p.user_id
    /\ UpdateProfile(DB, p.user_id, p.id, [col |-> "id", val |-> id]).code
         = ForeignKeyViolation

(* ---------------------------------------------------------------------- *)
(* C11: an INSERT of a Class whose professor_id is not the id of a Profile *)
(* of the caller (no such Profile, or another identity's), or of an        *)
(* Assignment whose turma_id is not the id of a Class of the caller (no    *)
(* such Class, or another identity's), raises and leaves the store as it   *)
(* was.                                                                    *)
(* ---------------------------------------------------------------------- *)
C11_MissingParentRejected ==
  \A u \in UserIds :
    /\ \A row \in TurmaRows :
         row.professor_id \notin {p.id : p \in ChainOf(DB, u).profiles} =>
           LET r == InsertTurma(DB, u, row) IN
           r.code # OK /\ r.n = 0 /\ r.s = DB
    /\ \A row \in AtividadeRows :
         row.turma_id \notin {t.id : t \in ChainOf(DB, u).turmas} =>
           LET r == InsertAtividade(DB, u, row) IN
           r.code # OK /\ r.n = 0 /\ r.s = DB

(* identity u2 holds a Profile; its INSERT of a Class under the Profile of
   u1, and of an Assignment in the Class u1 created, both raise; so does
   its INSERT of an Assignment in a Class that does not exist *)
C11_Witness ==
  \E p \in profiles, q \in profiles, c \in turmas :
    /\ p.user_id # q.user_id
    /\ c.professor_id = p.id
    /\ actor = p.user_id
    /\ \E row \in TurmaRows :
         /\ row.professor_id = p.id
         /\ InsertTurma(DB, q.user_id, row).code = RlsViolation
    /\ \E row \in AtividadeRows :
         /\ row.turma_id = c.id /\ row.tipo = NULL
         /\ InsertAtividade(DB, q.user_id, row).code = RlsViolation
         /\ InsertAtividade(DB, p.user_id, row).code = OK

(* ---------------------------------------------------------------------- *)
(* C12: on profiles a caller selects exactly the rows whose user_id is its *)
(* own identity; its UPDATE of another identity's Profile affects zero     *)
(* rows and changes nothing, no UPDATE gives a row another user_id, and    *)
(* its INSERT of a Profile with another identity's user_id raises.         *)
(* ---------------------------------------------------------------------- *)
C12_ProfileOwnRowOnly ==
  \A u \in UserIds :
    /\ SelectProfiles(DB, u) = {p \in profiles : p.user_id = u}
    /\ \A row \in ProfileRows :
         LET r == InsertProfile(DB, u, row) IN
         /\ row.user_id # u => (r.code = RlsViolation /\ r.n = 0 /\ r.s = DB)
         /\ r.code = OK => row.user_id = u
    /\ \A p \in profiles, patch \in ProfilePatches :
         LET r == UpdateProfile(DB, u, p.id, patch) IN
         /\ p.user_id # u => (r.code = OK /\ r.n = 0 /\ r.s = DB)
         /\ r.n = 1 => /\ p.user_id = u
                       /\ r.s.profiles \ profiles
                            \subseteq {[p EXCEPT ![patch.col] = patch.val,
                                                  !.updated_at = now]}
                       /\ \A x \in r.s.profiles \ profiles : x.user_id = u
         /\ (p.user_id = u /\ patch.col = "nome") => (r.code = OK /\ r.n = 1)

(* two identities with their Profiles; the one whose statement took
   effect last selects its own row only, and its UPDATE of the other's
   Profile affects no row *)
C12_Witness ==
  \E p \in profiles, q \in profiles :
    /\ p.user_id # q.user_id
    /\ actor = p.user_id
    /\ turmas = {}
    /\ p.nome = "Ana" /\ q.nome = "Professor"
    /\ SelectProfiles(DB, p.user_id) = {p}
    /\ UpdateProfile(DB, p.user_id, q.id, [col |-> "nome", val |-> "Ana"]).n = 0
    /\ InsertProfile(DB, p.user_id, [q EXCEPT !.nome = "Ana"]).code = RlsViolation

(* ---------------------------------------------------------------------- *)
(* C13: a caller's DELETE on profiles removes no row, the caller's own     *)
(* Profile included; an identity that has a Profile in one state and none  *)
(* in the next was deleted from auth.users in that step, by the identity   *)
(* service.                                                                *)
(* ---------------------------------------------------------------------- *)
C13_ProfileGoneOnlyWithIdentity ==
  /\ [](\A u \in UserIds, id \in ProfileIds :
          LET r == DeleteProfile(DB, u, id) IN
          r.code = OK /\ r.n = 0 /\ r.s = DB)
  /\ [][\A p \in profiles :
          ProfilesOf(DB, p.user_id)' = {} =>
            /\ p.user_id \in {u.id : u \in auth_users}
            /\ p.user_id \notin {u.id : u \in auth_users'}
            /\ actor' = 0]_vars

(* an identity whose statement took effect last holds a Profile, and its
   DELETE of that Profile removes no row *)
C13_Witness ==
  \E p \in profiles :
    /\ actor = p.user_id
    /\ turmas = {}
    /\ DeleteProfile(DB, p.user_id, p.id).n = 0
    /\ p \in DeleteProfile(DB, p.user_id, p.id).s.profiles

(* ---------------------------------------------------------------------- *)
(* C14: in every step that leaves a row of profiles, turmas or atividades  *)
(* in place under its id, the row's updated_at does not decrease, whatever *)
(* updated_at the requests carried at insert or in the update.             *)
(* ---------------------------------------------------------------------- *)
C14_UpdatedAtNeverDecreases ==
  [][/\ \A old \in profiles : \A new \in profiles' :
          new.id = old.id => new.updated_at >= old.updated_at
     /\ \A old \in turmas : \A new \in turmas' :
          new.id = old.id => new.updated_at >= old.updated_at
     /\ \A old \in atividades : \A new \in atividades' :
          new.id = old.id => new.updated_at >= old.updated_at]_vars

(* ---------------------------------------------------------------------- *)
(* C15: an UPDATE that affects a row of profiles, turmas or atividades     *)
(* stores it with updated_at = now(); the store after the UPDATE is the    *)
(* same whether the request carries no updated_at or any updated_at; and   *)
(* every row that a step changes has updated_at = now() after the step.    *)
(* ---------------------------------------------------------------------- *)
C15_UpdateStampsNow ==
  /\ [](\A u \in UserIds, ts \in Stamps :
          /\ \A p \in profiles, val \in ProfileNomes :
               LET r == UpdateProfile(DB, u, p.id, [col |-> "nome", val |-> val]) IN
               /\ r.n = 1 => \A x \in r.s.profiles : x.id = p.id => x.updated_at = now
               /\ UpdateProfile(DB, u, p.id,
                    [col |-> "nome", val |-> val, updated_at |-> ts]) = r
          /\ \A t \in turmas, val \in Periodos :
               LET r == UpdateTurma(DB, u, t.id, [col |-> "periodo", val |-> val]) IN
               /\ r.n = 1 => \A x \in r.s.turmas : x.id = t.id => x.updated_at = now
               /\ UpdateTurma(DB, u, t.id,
                    [col |-> "periodo", val |-> val, updated_at |-> ts]) = r
          /\ \A a \in atividades, val \in StatusValues :
               LET r == UpdateAtividade(DB, u, a.id, [col |-> "status", val |-> val]) IN
               /\ r.n = 1 => \A x \in r.s.atividades : x.id = a.id => x.updated_at = now
               /\ UpdateAtividade(DB, u, a.id,
                    [col |-> "status", val |-> val, updated_at |-> ts]) = r)
  /\ [][/\ \A old \in profiles : \A new \in profiles' :
             (new.id = old.id /\ new # old) => new.updated_at = now'
        /\ \A old \in turmas : \A new \in turmas' :
             (new.id = old.id /\ new # old) => new.updated_at = now'
        /\ \A old \in atividades : \A new \in atividades' :
             (new.id = old.id /\ new # old) => new.updated_at = now']_vars

(* after the clock advanced, a Class inserted as matutino and an
   Assignment inserted as ativa have been updated by their owner: each
   carries updated_at = now(), and an UPDATE carrying a later updated_at
   stores now() again *)
C15_Witness ==
  \E t \in turmas, a \in atividades :
    /\ now = MaxClock
    /\ actor \in TimedUserIds
    /\ t.periodo = "vespertino" /\ t.updated_at = now
    /\ a.status = "finalizada" /\ a.updated_at = now
    /\ UpdateTurma(DB, actor, t.id,
         [col |-> "periodo", val |-> "noturno", updated_at |-> MaxClock + 1]).s.turmas
         = {[t EXCEPT !.periodo = "noturno"]}

(* ---------------------------------------------------------------------- *)
(* C16: an INSERT or UPDATE that gives periodo, tipo or status a value     *)
(* outside the field's fixed set (periodo: matutino, vespertino, noturno   *)
(* or null; tipo: tarefa, prova, projeto, exercicio, trabalho or null;     *)
(* status: ativa, finalizada, cancelada) stores nothing and leaves the     *)
(* store as it was; when the row is the caller's to write, the statement   *)
(* raises the check violation.                                             *)
(* ---------------------------------------------------------------------- *)
C16_InvalidEnumRejected ==
  \A u \in UserIds :
    /\ \A row \in EnumTurmaRows :
         ("periodo" \in DOMAIN row /\ row.periodo \notin Periodos \cup {NULL}) =>
           LET r == InsertTurma(DB, u, row) IN
           /\ r.code # OK /\ r.n = 0 /\ r.s = DB
           /\ row.professor_id \in {p.id : p \in ChainOf(DB, u).profiles}
                => r.code = CheckViolation
    /\ \A t \in turmas, patch \in EnumTurmaPatches :
         patch.val \notin Periodos \cup {NULL} =>
           LET r == UpdateTurma(DB, u, t.id, patch) IN
           /\ r.n = 0 /\ r.s = DB
           /\ u \in TurmaOwners(DB, t) => r.code = CheckViolation
    /\ \A row \in EnumAtividadeRows :
         (\/ "tipo" \in DOMAIN row /\ row.tipo \notin Tipos \cup {NULL}
          \/ "status" \in DOMAIN row /\ row.status \notin StatusValues) =>
           LET r == InsertAtividade(DB, u, row) IN
           /\ r.code # OK /\ r.n = 0 /\ r.s = DB
           /\ row.turma_id \in {t.id : t \in ChainOf(DB, u).turmas}
                => r.code = CheckViolation
    /\ \A a \in atividades, patch \in EnumAtividadePatches :
         (\/ patch.col = "tipo" /\ patch.val \notin Tipos \cup {NULL}
          \/ patch.col = "status" /\ patch.val \notin StatusValues) =>
           LET r == UpdateAtividade(DB, u, a.id, patch) IN
           /\ r.n = 0 /\ r.s = DB
           /\ u \in AtividadeOwners(DB, a) => r.code = CheckViolation

(* ---------------------------------------------------------------------- *)
(* C17: in every reachable state every Class's periodo is matutino,        *)
(* vespertino, noturno or null, every Assignment's tipo is tarefa, prova,  *)
(* projeto, exercicio, trabalho or null, and every Assignment's status is  *)
(* ativa, finalizada or cancelada.                                         *)
(* ---------------------------------------------------------------------- *)
C17_EnumDomains ==
  /\ \A t \in turmas : t.periodo \in Periodos \cup {NULL}
  /\ \A a \in atividades : /\ a.tipo \in Tipos \cup {NULL}
                           /\ a.status \in StatusValues

(* ---------------------------------------------------------------------- *)
(* C18: an INSERT of an Assignment that leaves tipo out, into a Class of   *)
(* the caller, under a free id and with status left out or one of its      *)
(* three values, succeeds and stores the row with tipo null.               *)
(* ---------------------------------------------------------------------- *)
C18_TipoOmittedStoresNull ==
  \A u \in UserIds, row \in EnumAtividadeRows :
    (/\ "tipo" \notin DOMAIN row
     /\ row.turma_id \in {t.id : t \in ChainOf(DB, u).turmas}
     /\ row.id \notin {a.id : a \in atividades}
     /\ "status" \in DOMAIN row => row.status \in StatusValues) =>
      LET r == InsertAtividade(DB, u, row) IN
      /\ r.code = OK /\ r.n = 1
      /\ \E a \in r.s.atividades :
           /\ r.s.atividades = atividades \cup {a}
           /\ a.id = row.id /\ a.turma_id = row.turma_id /\ a.titulo = row.titulo
           /\ a.tipo = NULL

(* the store holds one Assignment with tipo null, and is the store that
   its owner's INSERT without tipo, status finalizada, gives from the
   store without the Assignment *)
C18_Witness ==
  \E a \in atividades :
    /\ actor \in AtividadeOwners(DB, a)
    /\ a.tipo = NULL /\ a.status = "finalizada"
    /\ InsertAtividade([DB EXCEPT !.atividades = {}], actor,
         [id |-> a.id, turma_id |-> a.turma_id, titulo |-> a.titulo,
          status |-> "finalizada"])
         = Reply(DB, OK, 1)

(* ---------------------------------------------------------------------- *)
(* C19: an INSERT of an Assignment that leaves status out stores the row   *)
(* with status ativa whenever it succeeds, and it succeeds for a Class of  *)
(* the caller, a free id and a tipo left out, null or one of its values.   *)
(* ---------------------------------------------------------------------- *)
C19_StatusDefaultsToAtiva ==
  \A u \in UserIds, row \in EnumAtividadeRows :
    "status" \notin DOMAIN row =>
      LET r == InsertAtividade(DB, u, row) IN
      /\ r.code = OK =>
           \E a \in r.s.atividades :
             /\ r.s.atividades = atividades \cup {a}
             /\ a \notin atividades
             /\ a.id = row.id /\ a.status = "ativa"
      /\ (/\ row.turma_id \in {t.id : t \in ChainOf(DB, u).turmas}
          /\ row.id \notin {a.id : a \in atividades}
          /\ "tipo" \in DOMAIN row => row.tipo \in Tipos \cup {NULL})
           => r.code = OK

(* the store holds one Assignment with tipo prova and status ativa, and is
   the store that its owner's INSERT with tipo prova and no status gives
   from the store without the Assignment *)
C19_Witness ==
  \E a \in atividades :
    /\ actor \in AtividadeOwners(DB, a)
    /\ a.tipo = "prova" /\ a.status = "ativa"
    /\ InsertAtividade([DB EXCEPT !.atividades = {}], actor,
         [id |-> a.id, turma_id |-> a.turma_id, titulo |-> a.titulo,
          tipo |-> "prova"])
         = Reply(DB, OK, 1)

(* ---------------------------------------------------------------------- *)
(* C20: a creation of an identity that succeeds adds exactly one Profile,  *)
(* whose user_id is the new identity's id, whose email is the identity's   *)
(* email, and whose nome is the full_name of the identity's metadata, or   *)
(* 'Professor' when the metadata carries no full_name.                     *)
(* ---------------------------------------------------------------------- *)
C20_ProvisionedProfileFields ==
  \A new_user \in NewUsers, pid \in ProfileIds :
    LET r == on_auth_user_created(DB, new_user, pid) IN
    r.code = OK =>
      \E p \in r.s.profiles :
        /\ p \notin profiles
        /\ r.s.profiles = profiles \cup {p}
        /\ p.id = pid
        /\ p.user_id = new_user.id
        /\ p.email = new_user.email
        /\ new_user.full_name = NULL => p.nome = "Professor"
        /\ new_user.full_name # NULL => p.nome = new_user.full_name
        /\ \E x \in r.s.users : x.id = p.user_id /\ x.email = p.email

(* the identity service created both identities, one with full_name Ana
   and one without full_name: each Profile carries its identity's id and
   email, and the names are Ana and Professor *)
C20_Witness ==
  \E p \in profiles, q \in profiles :
    /\ actor = 0
    /\ turmas = {}
    /\ p.nome = "Ana" /\ q.nome = "Professor"
    /\ \A x \in {p, q} : \E y \in auth_users : y.id = x.user_id /\ y.email = x.email
    /\ on_auth_user_created(
         [DB EXCEPT !.users = {y \in auth_users : y.id # q.user_id},
                    !.profiles = {p}],
         [id |-> q.user_id, email |-> q.email, full_name |-> NULL], q.id)
         = Reply(DB, OK, 1)

C21_SignOutClearsAuthKeys ==
  [][(/\ Call("handleSignOut").h = "handleSignOut"
      /\ client'.calls["handleSignOut"].h = "idle")
     => \A key \in client'.localStorage : ~IsAuthKey(key)]_vars

(* ---------------------------------------------------------------------- *)
(* C23: whenever the Dashboard shows its managers and no request is in     *)
(* flight, the local turmas and atividades lists hold exactly the Classes  *)
(* and Assignments the signed-in identity owns in the store.               *)
(* ---------------------------------------------------------------------- *)
Rows(list) == {list[i] : i \in 1..Len(list)}

NoRequestInFlight == \A slot \in Slots : Call(slot).h = "idle"

C23_ListsMatchStore ==
  (Rendered(client) /\ NoRequestInFlight /\ client.session # Null) =>
    LET mine == ChainOf(DB, client.session[1]) IN
    /\ Rows(client.dashboard.turmas) = mine.turmas
    /\ Rows(client.dashboard.atividades) = mine.atividades

(* ---------------------------------------------------------------------- *)
(* C24: when handleDeleteTurma(t) runs to its success with nothing else in *)
(* flight, the local turmas list becomes the list as it was without t,     *)
(* the other entries in their order, and stays so to the end; at the end   *)
(* the local atividades list holds no activity whose turma_id is t.        *)
(* ---------------------------------------------------------------------- *)
OthersIdle(slot) == \A other \in Slots \ {slot} : Call(other).h = "idle"

DeleteTurmaResumes(at) ==
  /\ client.page = "dashboard"
  /\ Call("TurmasManager").h = "handleDeleteTurma"
  /\ Call("TurmasManager").at = at
  /\ Call("TurmasManager").state = "replied"
  /\ OthersIdle("TurmasManager")

ErrorReturned(slot) ==
  /\ client.page = "dashboard"
  /\ Call(slot).at \in {"insert", "delete", "update"}
  /\ Call(slot).state = "replied"
  /\ Call(slot).outcome = "error"

C25_ErrorLeavesStateUnchanged ==
  [][\A slot \in {"TurmasManager", "AtividadesManager"} :
       (ErrorReturned(slot) /\ client'.calls[slot] # client.calls[slot]) =>
         /\ client'.dashboard.turmas = client.dashboard.turmas
         /\ client'.dashboard.atividades = client.dashboard.atividades
         /\ client'.turmasManager.formData = client.turmasManager.formData
         /\ client'.turmasManager.isDialogOpen = client.turmasManager.isDialogOpen
         /\ client'.atividadesManager.formData = client.atividadesManager.formData
         /\ client'.atividadesManager.isDialogOpen = client.atividadesManager.isDialogOpen
         /\ client'.calls[slot].h = "idle"
         /\ UNCHANGED storeVars
    ]_vars

(* handleCreateAtividade is back from an error the store returned (the
   class of the form is gone from the store): the dialog is still open with
   the form as it was submitted *)
C25_Witness ==
  /\ Rendered(client)
  /\ Call("AtividadesManager").h = "idle"
  /\ ~client.atividadesManager.isLoading
  /\ client.atividadesManager.isDialogOpen
  /\ AtividadeFormValid(client.atividadesManager.formData)
  /\ client.atividadesManager.formData.turma_id[1] \notin {t.id : t \in turmas}
  /\ client.dashboard.atividades = <<>>
  /\ atividades = {}

(* ---------------------------------------------------------------------- *)
(* C30: every insert the client sends carries status 'ativa'; every status *)
(* update it sends is 'finalizada' for an activity its list showed as      *)
(* 'ativa' (no status shown offers a way to 'ativa' or to 'cancelada');    *)
(* and in the store an Assignment enters as 'ativa' and its status only    *)
(* ever changes from 'ativa' to 'finalizada'.                              *)
(* ---------------------------------------------------------------------- *)
C30_StatusOnlyForward ==
  /\ [](LET k == Call("AtividadesManager") IN
        /\ k.h = "handleCreateAtividade" => k.row[1].status = "ativa"
        /\ k.h = "handleUpdateStatus" =>
             /\ k.novoStatus = "finalizada"
             /\ \A a \in Rows(k.atividades) :
                  a.id \in k.atividadeId => a.status = "ativa"
        /\ \A s \in StatusValues :
             /\ StatusButtons([status |-> s]) \cap {"ativa", "cancelada"} = {}
             /\ s # "ativa" => StatusButtons([status |-> s]) = {})
  /\ [][\A a2 \in atividades' :
          /\ a2.id \notin {a.id : a \in atividades} => a2.status = "ativa"
          /\ \A a \in atividades :
               (a.id = a2.id /\ a.status # a2.status) =>
                 a.status = "ativa" /\ a2.status = "finalizada"
       ]_vars

(* an activity created and then finalised through the client: the store
   and the list both have it as finalizada, and nothing is in flight *)
C30_Witness ==
  /\ Rendered(client)
  /\ NoRequestInFlight
  /\ \E a \in atividades :
       /\ a.status = "finalizada"
       /\ a \in Rows(client.dashboard.atividades)

(* ---------------------------------------------------------------------- *)
(* C26: a request of handleSignIn is only ever in flight with email and    *)
(* password filled in, one of handleSignUp with email, password and full   *)
(* name filled in and a password of 6 characters or more, one of           *)
(* handleCreateTurma with nome and periodo, one of handleCreateAtividade   *)
(* with titulo, tipo and turma_id; isLoading is true only while such a     *)
(* request is in flight; and a submit that starts no request changes       *)
(* nothing but the form it was typed into: no list, no isLoading flag, no  *)
(* stored key, no row of the store.                                        *)
(* ---------------------------------------------------------------------- *)
C26_ValidationBlocksRequest ==
  /\ [](/\ Call("AuthPage").h = "handleSignIn" =>
             client.auth.email # "" /\ client.auth.password # ""
        /\ Call("AuthPage").h = "handleSignUp" =>
             /\ client.auth.email # "" /\ client.auth.password # ""
             /\ client.auth.fullName # ""
             /\ Len(client.auth.password) >= 6
        /\ Call("TurmasManager").h = "handleCreateTurma" =>
             LET row == Call("TurmasManager").row[1] IN
             row.nome # "" /\ row.periodo # ""
        /\ Call("AtividadesManager").h = "handleCreateAtividade" =>
             LET row == Call("AtividadesManager").row[1] IN
             /\ row.titulo # "" /\ row.tipo # ""
             /\ client.atividadesManager.formData.turma_id # Null
             /\ row.turma_id = client.atividadesManager.formData.turma_id[1]
        /\ client.auth.isLoading => Call("AuthPage").h \in {"handleSignIn", "handleSignUp"}
        /\ client.turmasManager.isLoading => Call("TurmasManager").h # "idle"
        /\ client.atividadesManager.isLoading => Call("AtividadesManager").h # "idle")
  /\ [][(/\ client'.page = client.page
         /\ client'.calls = client.calls
         /\ \/ client'.auth # client.auth
            \/ client'.turmasManager # client.turmasManager
            \/ client'.atividadesManager # client.atividadesManager)
        => /\ client'.dashboard = client.dashboard
           /\ client'.localStorage = client.localStorage
           /\ client'.session = client.session
           /\ client'.auth.isLoading = client.auth.isLoading
           /\ client'.turmasManager.isLoading = client.turmasManager.isLoading
           /\ client'.atividadesManager.isLoading = client.atividadesManager.isLoading
           /\ UNCHANGED storeVars
       ]_vars

(* the class form was submitted with its periodo left empty: the dialog is
   open on the typed form, nothing is loading and nothing is in flight *)
C26_Witness ==
  /\ Rendered(client)
  /\ NoRequestInFlight
  /\ client.turmasManager.isDialogOpen
  /\ client.turmasManager.formData = [nome |-> "5A", periodo |-> ""]
  /\ ~client.turmasManager.isLoading
  /\ turmas = {}

(* ---------------------------------------------------------------------- *)
(* C29: in handleSignIn and handleSignUp the auth keys are removed first,  *)
(* then the global sign-out is attempted, and only after it has settled is *)
(* the credential request sent, with no auth key in local storage while    *)
(* either request is awaited; however the sign-out settles, the credential *)
(* request follows; and the page changes to the Dashboard only on a reply  *)
(* that holds a user and no error.                                         *)
(* ---------------------------------------------------------------------- *)
CredentialHandlers == {"handleSignIn", "handleSignUp"}

C29_CleanupSignOutThenCredentials ==
  /\ [](Call("AuthPage").h \in CredentialHandlers =>
          LET k == Call("AuthPage") IN
          /\ SubSeq(k.events, 1, 2) = <<"cleanupAuthState", "signOut">>
          /\ k.at = "signOut" => k.events = <<"cleanupAuthState", "signOut">>
          /\ k.at = "credentials" =>
               /\ Len(k.events) = 4
               /\ k.events[3] \in {"ok"} \cup Failures
               /\ k.events[4] = "credentials"
          /\ k.state = "sent" => \A key \in client.localStorage : ~IsAuthKey(key))
  /\ [][(Call("AuthPage").h \in CredentialHandlers /\ client'.calls # client.calls) =>
          /\ Call("AuthPage").at = "signOut" =>
               /\ client'.page = "auth"
               /\ client'.calls["AuthPage"].at = "credentials"
               /\ client'.calls["AuthPage"].state = "sent"
          /\ client'.page = "dashboard" =>
               /\ Call("AuthPage").at = "credentials"
               /\ Call("AuthPage").state = "replied"
               /\ Call("AuthPage").reply.user # Null
               /\ ~Call("AuthPage").reply.error
               /\ ~Call("AuthPage").reply.thrown
       ]_vars

(* the sign-out of handleSignIn was rejected, the credential request went
   out all the same and came back with the user *)
C29_Witness ==
  /\ client.page = "auth"
  /\ Call("AuthPage").h = "handleSignIn"
  /\ Call("AuthPage").state = "replied"
  /\ Call("AuthPage").events = <<"cleanupAuthState", "signOut", "throw", "credentials">>
  /\ Call("AuthPage").reply.user # Null
  /\ SessionKey \in client.localStorage

(* ---------------------------------------------------------------------- *)
(* C27: after the Dashboard mounts, its isLoading flag eventually becomes  *)
(* false, whether there is no session, the profile query returns an error, *)
(* the turmas or atividades query returns an error, a request throws, or   *)
(* the load succeeds; and a handler of the class or assignment manager     *)
(* starts only on a Dashboard that is not loading and has both a user and  *)
(* a profile.                                                              *)
(* ---------------------------------------------------------------------- *)
ManagerStarts(slot) ==
  /\ Call(slot).h = "idle"
  /\ client'.calls[slot].h # "idle"

C27_DashboardLoadEnds ==
  /\ (client.page = "dashboard" /\ client.dashboard.isLoading)
       ~> (client.page = "dashboard" /\ ~client.dashboard.isLoading)
  /\ [][\A slot \in {"TurmasManager", "AtividadesManager"} :
          ManagerStarts(slot) =>
            /\ client.page = "dashboard"
            /\ ~client.dashboard.isLoading
            /\ client.dashboard.user # Null
            /\ client.dashboard.profile # Null
      ]_vars
  /\ [](\A slot \in {"TurmasManager", "AtividadesManager"} :
          Call(slot).h # "idle" =>
            client.dashboard.user # Null /\ client.dashboard.profile # Null)

(* the Dashboard of a signed-in user has stopped loading without a profile:
   the profile query returned an error or threw *)
C27_Witness ==
  /\ client.page = "dashboard"
  /\ ~client.dashboard.isLoading
  /\ Call("loadUserData").h = "idle"
  /\ client.dashboard.user # Null
  /\ client.dashboard.profile = Null

(* ---------------------------------------------------------------------- *)
(* C28: every run of handleSignIn, handleSignUp, handleCreateTurma,        *)
(* handleDeleteTurma, handleCreateAtividade, handleDeleteAtividade and     *)
(* handleUpdateStatus that set isLoading eventually sets it back to false, *)
(* its request having succeeded, returned an error or thrown; no handler   *)
(* ends with isLoading still set.                                          *)
(* ---------------------------------------------------------------------- *)
C28_HandlersStopLoading ==
  /\ client.auth.isLoading ~> ~client.auth.isLoading
  /\ client.turmasManager.isLoading ~> ~client.turmasManager.isLoading
  /\ client.atividadesManager.isLoading ~> ~client.atividadesManager.isLoading
  /\ [](/\ Call("AuthPage").h \notin CredentialHandlers => ~client.auth.isLoading
        /\ Call("TurmasManager").h = "idle" => ~client.turmasManager.isLoading
        /\ Call("AtividadesManager").h = "idle" => ~client.atividadesManager.isLoading)

(* the request of handleDeleteTurma has thrown and the handler is about to
   resume with isLoading set *)
C28_Witness ==
  /\ Call("TurmasManager").h = "handleDeleteTurma"
  /\ Call("TurmasManager").state = "replied"
  /\ Call("TurmasManager").outcome = "throw"
  /\ client.turmasManager.isLoading

====
